---------------------------- MODULE Spec2Model ----------------------------
(***************************************************************************)
(* A model of the SQLite database reader: the catalog built at open, the   *)
(* B-tree walkers, the textual SELECT parser and the query evaluator.      *)
(*                                                                         *)
(* Go strings and byte slices are sequences of byte values (ASCII codes),  *)
(* so that lower-casing, trimming, splitting and substring search are      *)
(* computed as the code computes them.  Error values are the messages of   *)
(* errors.New; the empty message "" is the nil error.                      *)
(***************************************************************************)
EXTENDS Integers, Sequences, FiniteSets

VARIABLES
    file,       \* the database file: its pages, decoded to cells
    db,         \* the SQLite object: file handle, pageSize, tables (catalog)
    running,    \* FALSE once the process has been terminated by a panic
    cmd,        \* the text handed to the last HandleCommand, and its parts
    out,        \* the last HandleCommand: its result lines and err, whether
                \* it panicked, and the stmt and rootPage of its Query
    page,       \* the page tree of the last TraverseBTree walk (btree.go)
    iteration,  \* which program of the repository runs: "sqlite" (main over
                \* sqlite.go and HandleCommand) or "btree" (main over btree.go)
    dec         \* the last call of a decoder of btree.go on bytes: the
                \* function (op), what the bytes were written from (src),
                \* the bytes (buf) and what became of the call (res)

vars == <<file, db, running, cmd, out, page, iteration, dec>>

---------------------------------------------------------------------------
(* Bounds of the model.                                                    *)

\* rows of table "companies" range over 0..MaxRows
MaxRows == 4
\* rows per leaf page of the "companies" B-tree
LeafCap == 2

---------------------------------------------------------------------------
(* Package strings / strconv, as far as the program uses them.             *)

SetMin(S) == CHOOSE x \in S : \A y \in S : x <= y

\* s[lo:hi] of Go (0-based, hi exclusive)
Slice(s, lo, hi) == SubSeq(s, lo + 1, hi)

HasPrefixAt(s, sub, i) ==
    /\ i + Len(sub) <= Len(s)
    /\ \A k \in 1..Len(sub) : s[i + k] = sub[k]

\* strings.Index: 0-based position of the first occurrence, or -1
RECURSIVE IndexFrom(_, _, _)
IndexFrom(s, sub, i) ==
    IF i + Len(sub) > Len(s) THEN -1
    ELSE IF HasPrefixAt(s, sub, i) THEN i
    ELSE IndexFrom(s, sub, i + 1)

Index(s, sub) == IndexFrom(s, sub, 0)

Contains(s, sub) == Index(s, sub) >= 0

\* strings.Trim(s, cutset)
RECURSIVE TrimLeft(_, _)
TrimLeft(s, cutset) ==
    IF Len(s) = 0 \/ s[1] \notin cutset THEN s ELSE TrimLeft(Tail(s), cutset)

RECURSIVE TrimRight(_, _)
TrimRight(s, cutset) ==
    IF Len(s) = 0 \/ s[Len(s)] \notin cutset THEN s
    ELSE TrimRight(SubSeq(s, 1, Len(s) - 1), cutset)

Trim(s, cutset) == TrimRight(TrimLeft(s, cutset), cutset)

\* unicode.IsSpace on ASCII: \t \n \v \f \r and space
WhiteSpace == {9, 10, 11, 12, 13, 32}

TrimSpace(s) == Trim(s, WhiteSpace)

\* strings.ToLower on ASCII
ToLower(s) == [i \in 1..Len(s) |-> IF s[i] \in 65..90 THEN s[i] + 32 ELSE s[i]]

\* strings.Split(s, sep), sep not empty
RECURSIVE Split(_, _)
Split(s, sep) ==
    LET m == Index(s, sep)
    IN  IF m < 0 THEN <<s>>
        ELSE <<Slice(s, 0, m)>> \o Split(Slice(s, m + Len(sep), Len(s)), sep)

\* strings.SplitAfterN(s, sep, n), sep not empty: at most n pieces, each but
\* the last ending with sep, the last one the unsplit remainder
RECURSIVE SplitAfterN(_, _, _)
SplitAfterN(s, sep, n) ==
    IF n = 0 THEN <<>>
    ELSE LET m == Index(s, sep)
         IN  IF n = 1 \/ m < 0 THEN <<s>>
             ELSE <<Slice(s, 0, m + Len(sep))>>
                    \o SplitAfterN(Slice(s, m + Len(sep), Len(s)), sep, n - 1)

\* strings.Join(elems, sep)
RECURSIVE Join(_, _)
Join(elems, sep) ==
    IF Len(elems) = 0 THEN <<>>
    ELSE IF Len(elems) = 1 THEN elems[1]
    ELSE elems[1] \o sep \o Join(Tail(elems), sep)

\* strconv.Itoa
RECURSIVE Digits(_)
Digits(n) == IF n < 10 THEN <<48 + n>> ELSE Digits(n \div 10) \o <<48 + (n % 10)>>

Itoa(n) == IF n < 0 THEN <<45>> \o Digits(0 - n) ELSE Digits(n)

---------------------------------------------------------------------------
(* The query parser.                                                       *)

\* "select", "from", "where", "count", "END", "(", ",", ", ", " ", "'", "*", "="
kwSelect == <<115, 101, 108, 101, 99, 116>>
kwFrom   == <<102, 114, 111, 109>>
kwWhere  == <<119, 104, 101, 114, 101>>
kwCount  == <<99, 111, 117, 110, 116>>
kwEND    == <<69, 78, 68>>
chParen  == <<40>>
chComma  == <<44>>
chCommaSpace == <<44, 32>>
chSpace  == <<32>>
chQuote  == <<39>>
chStar   == <<42>>
chEq     == <<61>>
chPipe   == <<124>>

\* ReadBeforeString: the text before delim and the text from delim on, both
\* trimmed of spaces
ReadBeforeString(input, delim) ==
    LET found    == Index(input, delim)
        delimIdx == IF delim = kwEND \/ found = -1 THEN Len(input) ELSE found
    IN  [result |-> Trim(Slice(input, 0, delimIdx), {32}),
         input  |-> Trim(Slice(input, delimIdx, Len(input)), {32})]

ReadIncludingString(input, delim) ==
    LET r == ReadBeforeString(input, delim)
    IN  IF r.input = <<>> THEN [result |-> <<>>, input |-> <<>>]
        ELSE [result |-> r.result \o Slice(r.input, 0, Len(delim)),
              input  |-> Slice(r.input, Len(delim), Len(r.input))]

\* The result of a Go function that returns (value, error) or panics.
NoWhere == [present |-> FALSE, left |-> <<>>, right |-> <<>>, op |-> <<>>]
NoStmt  == [cols |-> <<>>, function |-> "", from |-> <<>>, where |-> NoWhere]

\* ParseExpr: the projection list, or the arguments of count(...)
ParseExpr(input) ==
    LET expr == ReadBeforeString(input, kwFrom).result
    IN  IF Contains(expr, chParen)
        THEN LET r == ReadBeforeString(expr, chParen)
             IN  IF r.result = kwCount
                 THEN IF 1 > Len(r.input) - 1
                      THEN \* args[1 : len(args)-1] with len(args) = 1
                           [cols |-> <<>>, function |-> "", err |-> "", panic |-> TRUE]
                      ELSE [cols |-> Split(Slice(r.input, 1, Len(r.input) - 1), chComma),
                            function |-> "COUNT", err |-> "", panic |-> FALSE]
                 ELSE [cols |-> <<>>, function |-> "",
                       err |-> "function not yet implemented", panic |-> FALSE]
        ELSE [cols |-> Split(expr, chCommaSpace), function |-> "",
              err |-> "", panic |-> FALSE]

ParseFrom(input) == Trim(ReadBeforeString(input, kwWhere).result, {32})

\* ParseWhere: args[2] and args[1] are read whatever the number of pieces
ParseWhere(input) ==
    LET split == SplitAfterN(Trim(input, {32}), chSpace, 3)
        args  == [i \in 1..Len(split) |-> TrimSpace(split[i])]
    IN  IF Len(args) < 3
        THEN [where |-> NoWhere, err |-> "", panic |-> TRUE]
        ELSE [where |-> [present |-> TRUE, left |-> args[1],
                         right |-> Trim(args[3], {39}), op |-> args[2]],
              err |-> "", panic |-> FALSE]

ParseSelectStatement(input) ==
    LET in1 == ReadIncludingString(input, kwSelect).input
        e   == ParseExpr(in1)
        in2 == ReadIncludingString(in1, kwFrom).input
        frm == ParseFrom(in2)
        in3 == ReadIncludingString(in2, kwWhere).input
        w   == ParseWhere(in3)
        Fail(msg) == [stmt |-> NoStmt, err |-> msg, panic |-> FALSE]
        Panic     == [stmt |-> NoStmt, err |-> "", panic |-> TRUE]
    IN  IF in1 = <<>> THEN Fail("expected SELECT")
        ELSE IF e.panic THEN Panic
        ELSE IF e.err # "" THEN Fail(e.err)
        ELSE IF in2 = <<>> THEN Fail("expected FROM")
        ELSE IF in3 # <<>> /\ w.panic THEN Panic
        ELSE [stmt |-> [cols |-> e.cols, function |-> e.function, from |-> frm,
                        where |-> IF in3 # <<>> THEN w.where ELSE NoWhere],
              err |-> "", panic |-> FALSE]

---------------------------------------------------------------------------
(* The database file.  A page is held decoded: its type byte, its cells in *)
(* cell-pointer order and the right-most pointer of its header.  A cell is *)
(* the wide Cell struct: the fields its variant does not use are zero.     *)

InteriorIndexPage == 2
InteriorTablePage == 5
LeafIndexPage     == 10
LeafTablePage     == 13

TableTypeTable   == 0
TableTypeIndex   == 1
TableTypeView    == 2
TableTypeTrigger == 3

SchemaTypeIdx     == 0
SchemaNameIdx     == 1
SchemaRootPageIdx == 3
SchemaTextIdx     == 4

LeafCell(rowId, keys)     == [LeftChildPointer |-> 0, RowID |-> rowId, Keys |-> keys]
InteriorCell(left, rowId) == [LeftChildPointer |-> left, RowID |-> rowId, Keys |-> <<>>]
RawPage(type, cells, rightMost) ==
    [Type |-> type, Cells |-> cells, RightMostPointer |-> rightMost]

\* the record value of a NULL column (serial type 0): []byte{0}
NullKey == <<0>>

\* "table", "index", "view", "trigger"
txtTable   == <<116, 97, 98, 108, 101>>
txtIndex   == <<105, 110, 100, 101, 120>>
txtView    == <<118, 105, 101, 119>>
txtTrigger == <<116, 114, 105, 103, 103, 101, 114>>

\* "apples", "companies", "idx_country", "Pears"
nmApples    == <<97, 112, 112, 108, 101, 115>>
nmCompanies == <<99, 111, 109, 112, 97, 110, 105, 101, 115>>
nmIdxCountry == <<105, 100, 120, 95, 99, 111, 117, 110, 116, 114, 121>>
nmPears     == <<80, 101, 97, 114, 115>>

\* "CREATE TABLE apples (id integer primary key, name text, color text)"
sqlApples ==
    <<67, 82, 69, 65, 84, 69, 32, 84, 65, 66, 76, 69, 32, 97, 112, 112, 108,
      101, 115, 32, 40, 105, 100, 32, 105, 110, 116, 101, 103, 101, 114, 32,
      112, 114, 105, 109, 97, 114, 121, 32, 107, 101, 121, 44, 32, 110, 97,
      109, 101, 32, 116, 101, 120, 116, 44, 32, 99, 111, 108, 111, 114, 32,
      116, 101, 120, 116, 41>>
\* "CREATE TABLE companies (id integer primary key, name text, country text)"
sqlCompanies ==
    <<67, 82, 69, 65, 84, 69, 32, 84, 65, 66, 76, 69, 32, 99, 111, 109, 112,
      97, 110, 105, 101, 115, 32, 40, 105, 100, 32, 105, 110, 116, 101, 103,
      101, 114, 32, 112, 114, 105, 109, 97, 114, 121, 32, 107, 101, 121, 44,
      32, 110, 97, 109, 101, 32, 116, 101, 120, 116, 44, 32, 99, 111, 117,
      110, 116, 114, 121, 32, 116, 101, 120, 116, 41>>
\* "CREATE INDEX idx_country ON companies (country)"
sqlIdxCountry ==
    <<67, 82, 69, 65, 84, 69, 32, 73, 78, 68, 69, 88, 32, 105, 100, 120, 95,
      99, 111, 117, 110, 116, 114, 121, 32, 79, 78, 32, 99, 111, 109, 112,
      97, 110, 105, 101, 115, 32, 40, 99, 111, 117, 110, 116, 114, 121, 41>>
\* "CREATE TABLE Pears (id integer primary key, name text)"
sqlPears ==
    <<67, 82, 69, 65, 84, 69, 32, 84, 65, 66, 76, 69, 32, 80, 101, 97, 114,
      115, 32, 40, 105, 100, 32, 105, 110, 116, 101, 103, 101, 114, 32, 112,
      114, 105, 109, 97, 114, 121, 32, 107, 101, 121, 44, 32, 110, 97, 109,
      101, 32, 116, 101, 120, 116, 41>>

\* page 1: the rows (type, name, tbl_name, rootpage, sql) of sqlite_schema
SchemaPage ==
    RawPage(LeafTablePage,
        << LeafCell(1, <<txtTable, nmApples, nmApples, <<2>>, sqlApples>>),
           LeafCell(2, <<txtTable, nmCompanies, nmCompanies, <<3>>, sqlCompanies>>),
           LeafCell(3, <<txtIndex, nmIdxCountry, nmCompanies, <<4>>, sqlIdxCountry>>),
           LeafCell(4, <<txtTable, nmPears, nmPears, <<5>>, sqlPears>>) >>, 0)

\* page 2, table apples: (1, Gala, Green), (2, Fuji, Red),
\* (3, Opal, Blush Red), (4, Envy, Yellow)
ApplesPage ==
    RawPage(LeafTablePage,
        << LeafCell(1, <<NullKey, <<71, 97, 108, 97>>, <<71, 114, 101, 101, 110>>>>),
           LeafCell(2, <<NullKey, <<70, 117, 106, 105>>, <<82, 101, 100>>>>),
           LeafCell(3, <<NullKey, <<79, 112, 97, 108>>,
                         <<66, 108, 117, 115, 104, 32, 82, 101, 100>>>>),
           LeafCell(4, <<NullKey, <<69, 110, 118, 121>>,
                         <<89, 101, 108, 108, 111, 119>>>>) >>, 0)

\* page 5, table Pears: (1, Bosc)
PearsPage ==
    RawPage(LeafTablePage, << LeafCell(1, <<NullKey, <<66, 111, 115, 99>>>>) >>, 0)

\* table companies, n rows: row i is (i, name, country) with the names
\* "a", "b", ... and the countries "chad", "fiji", "Peru" in turn
Countries == << <<99, 104, 97, 100>>, <<102, 105, 106, 105>>, <<80, 101, 114, 117>> >>
\* the countries in the byte order an index keeps them in
SortedCountries == << <<80, 101, 114, 117>>, <<99, 104, 97, 100>>, <<102, 105, 106, 105>> >>

CountryOf(i) == Countries[((i - 1) % Len(Countries)) + 1]
CompanyRow(i) == LeafCell(i, <<NullKey, <<96 + i>>, CountryOf(i)>>)

NumLeaves(n) == (n + LeafCap - 1) \div LeafCap
\* page 1 is the schema, then one root page per schema row; the leaves of
\* companies follow
FirstLeafPage == Len(SchemaPage.Cells) + 2
LeafPageNum(j) == FirstLeafPage + j - 1
LeafRows(n, j) ==
    LET lo == (j - 1) * LeafCap + 1
        hi == IF j * LeafCap < n THEN j * LeafCap ELSE n
    IN  [k \in 1..(hi - lo + 1) |-> CompanyRow(lo + k - 1)]

\* page 3: a leaf when the rows fit one page, else an interior page with one
\* cell (left child, largest row-id of that child) per leaf but the last,
\* and the last leaf as the right-most pointer of the header
CompaniesRoot(n) ==
    IF n <= LeafCap
    THEN RawPage(LeafTablePage, [k \in 1..n |-> CompanyRow(k)], 0)
    ELSE RawPage(InteriorTablePage,
                 [j \in 1..(NumLeaves(n) - 1) |-> InteriorCell(LeafPageNum(j), j * LeafCap)],
                 LeafPageNum(NumLeaves(n)))

\* page 4: the index on companies(country); a record is (country, row-id),
\* the records in key order
RECURSIVE IndexEntries(_, _)
IndexEntries(n, c) ==
    IF c > Len(SortedCountries) THEN <<>>
    ELSE SelectSeq([i \in 1..n |-> LeafCell(0, <<CountryOf(i), <<i>>>>)],
                   LAMBDA cell : cell.Keys[1] = SortedCountries[c])
         \o IndexEntries(n, c + 1)

IndexRoot(n) == RawPage(LeafIndexPage, IndexEntries(n, 1), 0)

ZeroPage == RawPage(0, <<>>, 0)

DatabaseFile(n) ==
    [pageSize |-> 4096,
     pages |-> [p \in 1..(FirstLeafPage + NumLeaves(n) - 1) |->
                  CASE p = 1 -> SchemaPage
                    [] p = 2 -> ApplesPage
                    [] p = 3 -> CompaniesRoot(n)
                    [] p = 4 -> IndexRoot(n)
                    [] p = 5 -> PearsPage
                    [] OTHER -> IF n <= LeafCap THEN ZeroPage
                                ELSE RawPage(LeafTablePage,
                                             LeafRows(n, p - FirstLeafPage + 1), 0)]]

---------------------------------------------------------------------------
(* NewSQLite: the catalog.                                                 *)

RECURSIVE bytesToInt(_)
bytesToInt(bytes) ==
    IF Len(bytes) = 0 THEN 0
    ELSE bytesToInt(SubSeq(bytes, 1, Len(bytes) - 1)) * 256 + bytes[Len(bytes)]

\* parseColNames: the comma-separated items between the first "(" and the
\* first ")", each trimmed
parseColNames(bytes) ==
    LET insideExpr == Slice(bytes, Index(bytes, <<40>>) + 1, Index(bytes, <<41>>))
        result     == Split(insideExpr, chComma)
    IN  [i \in 1..Len(result) |-> TrimSpace(result[i])]

parseTableType(bytes) ==
    CASE bytes = txtTable   -> TableTypeTable
      [] bytes = txtIndex   -> TableTypeIndex
      [] bytes = txtView    -> TableTypeView
      [] bytes = txtTrigger -> TableTypeTrigger
      [] OTHER -> 0

\* ParseSQLiteSchema: one Table per cell of page 1, in cell-pointer order
ParseSQLiteSchema(f) ==
    LET cells == f.pages[1].Cells
    IN  [i \in 1..Len(cells) |->
            [Type     |-> parseTableType(cells[i].Keys[SchemaTypeIdx + 1]),
             Name     |-> cells[i].Keys[SchemaNameIdx + 1],
             PageNum  |-> bytesToInt(cells[i].Keys[SchemaRootPageIdx + 1]),
             ColNames |-> parseColNames(cells[i].Keys[SchemaTextIdx + 1])]]

NewSQLite(f) ==
    [file |-> "open", pageSize |-> f.pageSize, tables |-> ParseSQLiteSchema(f)]

---------------------------------------------------------------------------
(* Filters and the B-tree walkers of sqlite.go.                            *)

NilFilter           == [kind |-> "nil", rowIds |-> <<>>, key |-> <<>>]
TableFilter(rowIds) == [kind |-> "table", rowIds |-> rowIds, key |-> <<>>]
IndexFilter(key)    == [kind |-> "index", rowIds |-> <<>>, key |-> key]

\* a filter that admits an interior cell only when some id lies at or above
\* its key
FilterCellAbove(filter, cellRowID) ==
    IF filter.kind = "table"
    THEN \E i \in 1..Len(filter.rowIds) : filter.rowIds[i] >= cellRowID
    ELSE TRUE

\* TableFilter.FilterCell / NilFilter.FilterCell
FilterCell(filter, cellRowID) ==
    IF filter.kind = "table"
    THEN \E i \in 1..Len(filter.rowIds) : filter.rowIds[i] <= cellRowID
    ELSE TRUE

\* IndexFilter.PassesFilter
PassesFilter(filter, key) == filter.key = key

\* ReadAt leaves the buffer zero for a page past the end of the file
ReadPage(f, pageNum) ==
    IF pageNum \in DOMAIN f.pages THEN f.pages[pageNum] ELSE ZeroPage

ParseHeader(raw) ==
    [Type |-> raw.Type, CellCount |-> Len(raw.Cells),
     RightMostPointer |-> IF raw.Type \in {InteriorTablePage, InteriorIndexPage}
                          THEN raw.RightMostPointer ELSE 0]

NoPage == [Header |-> [Type |-> 0, CellCount |-> 0, RightMostPointer |-> 0],
           Cells |-> <<>>, Pages |-> <<>>]

\* ParseLeafTableCells: every cell under NilFilter; under a TableFilter the
\* cells whose row-id is in the list, each found id leaving the list
ParseLeafTableCells(raw, filter) ==
    IF filter.kind = "table"
    THEN LET ids   == {filter.rowIds[i] : i \in 1..Len(filter.rowIds)}
             found == {raw.Cells[i].RowID : i \in 1..Len(raw.Cells)}
         IN  [Cells  |-> SelectSeq(raw.Cells, LAMBDA c : c.RowID \in ids),
              filter |-> TableFilter(SelectSeq(filter.rowIds, LAMBDA id : id \notin found))]
    ELSE [Cells |-> raw.Cells, filter |-> filter]

\* ParseInteriorTableCells: the cells the filter admits, then the right-most
\* pointer of the header as one more cell
ParseInteriorTableCells(raw, filter) ==
    SelectSeq(raw.Cells, LAMBDA c : FilterCell(filter, c.RowID))
        \o <<InteriorCell(raw.RightMostPointer, 0)>>

RECURSIVE ParseTablePage(_, _, _)
RECURSIVE DescendTablePages(_, _, _, _)

\* the loop of ParseTablePage over page.Cells, from cell i on
DescendTablePages(f, pg, i, filter) ==
    IF i > Len(pg.Cells) THEN [page |-> pg, filter |-> filter]
    ELSE LET child == ParseTablePage(f, pg.Cells[i].LeftChildPointer, filter)
             next  == [pg EXCEPT !.Pages = Append(@, child.page)]
         IN  IF child.filter.kind = "table" /\ Len(child.filter.rowIds) = 0
             THEN [page |-> next, filter |-> child.filter]
             ELSE DescendTablePages(f, next, i + 1, child.filter)

\* ParseTablePage: the page tree below pageNum, and the filter as the walk
\* leaves it (the row-id list is shared by the whole walk)
ParseTablePage(f, pageNum, filter) ==
    LET raw    == ReadPage(f, pageNum)
        header == ParseHeader(raw)
    IN  IF header.Type = LeafTablePage
        THEN LET r == ParseLeafTableCells(raw, filter)
             IN  [page |-> [Header |-> header, Cells |-> r.Cells, Pages |-> <<>>],
                  filter |-> r.filter]
        ELSE DescendTablePages(f,
                 [Header |-> header, Cells |-> ParseInteriorTableCells(raw, filter),
                  Pages |-> <<>>], 1, filter)

\* ParseLeafIndexCells: the cells whose first key column passes the filter
ParseLeafIndexCells(raw, filter) ==
    SelectSeq(raw.Cells, LAMBDA c : PassesFilter(filter, c.Keys[1]))

\* ParseInteriorIndexCells: every cell, then the right-most pointer
ParseInteriorIndexCells(raw, filter) ==
    raw.Cells \o <<[LeftChildPointer |-> raw.RightMostPointer, RowID |-> 0, Keys |-> <<>>]>>

RECURSIVE ParseIndexPage(_, _, _)
ParseIndexPage(f, pageNum, filter) ==
    LET raw    == ReadPage(f, pageNum)
        header == ParseHeader(raw)
    IN  IF header.Type = LeafIndexPage
        THEN [Header |-> header, Cells |-> ParseLeafIndexCells(raw, filter), Pages |-> <<>>]
        ELSE LET cells == ParseInteriorIndexCells(raw, filter)
             IN  [Header |-> header, Cells |-> cells,
                  Pages |-> [i \in 1..Len(cells) |->
                               ParseIndexPage(f, cells[i].LeftChildPointer, filter)]]

\* slices.Sort
RECURSIVE SlicesSort(_)
SlicesSort(s) ==
    IF Len(s) <= 1 THEN s
    ELSE LET m == SetMin({s[i] : i \in 1..Len(s)})
             k == SetMin({i \in 1..Len(s) : s[i] = m})
         IN  <<m>> \o SlicesSort(SubSeq(s, 1, k - 1) \o SubSeq(s, k + 1, Len(s)))

---------------------------------------------------------------------------
(* Getters of the SQLite object.                                           *)

GetPageSize(d)   == d.pageSize
GetTableCount(d) == Len(d.tables)
GetTableNames(d) == [i \in 1..Len(d.tables) |-> d.tables[i].Name]

\* getRootPageNumber: the first entry whose name is exactly name
getRootPageNumber(d, name) ==
    LET hits == {i \in 1..Len(d.tables) : d.tables[i].Name = name}
    IN  IF hits = {} THEN [pageNum |-> 0, err |-> "page name not found"]
        ELSE [pageNum |-> d.tables[SetMin(hits)].PageNum, err |-> ""]

\* GetRootPageByName(name, filter...): no filter argument is the NilFilter,
\* a string the IndexFilter, a []uint64 the TableFilter over the sorted list
GetRootPageByName(d, f, name, filter) ==
    LET r == getRootPageNumber(d, name)
    IN  IF r.err # "" THEN [page |-> NoPage, err |-> r.err]
        ELSE IF filter.kind = "nil"
             THEN [page |-> ParseTablePage(f, r.pageNum, NilFilter).page, err |-> ""]
        ELSE IF filter.kind = "index"
             THEN [page |-> ParseIndexPage(f, r.pageNum, filter), err |-> ""]
        ELSE [page |-> ParseTablePage(f, r.pageNum,
                                      TableFilter(SlicesSort(filter.rowIds))).page,
              err |-> ""]

\* GetIndexPageName: the first index entry one of whose columns is key
GetIndexPageName(d, key) ==
    LET hits == {i \in 1..Len(d.tables) :
                    /\ d.tables[i].Type = TableTypeIndex
                    /\ \E c \in 1..Len(d.tables[i].ColNames) : d.tables[i].ColNames[c] = key}
    IN  IF hits = {} THEN <<>> ELSE d.tables[SetMin(hits)].Name

\* GetTableColNames: the columns of the first entry named name, else of entry 0
GetTableColNames(d, name) ==
    LET names == GetTableNames(d)
        hits  == {i \in 1..Len(names) : names[i] = name}
    IN  d.tables[IF hits = {} THEN 1 ELSE SetMin(hits)].ColNames

---------------------------------------------------------------------------
(* Rows of a page tree.                                                    *)

RECURSIVE Flatten(_)
Flatten(seqs) == IF Len(seqs) = 0 THEN <<>> ELSE Head(seqs) \o Flatten(Tail(seqs))

RECURSIVE Reverse(_)
Reverse(seq) == IF Len(seq) = 0 THEN <<>> ELSE Append(Reverse(Tail(seq)), Head(seq))

\* GetTableColumns appending the rows of the child pages last child first
RECURSIVE GetTableColumnsLastChildFirst(_, _)
GetTableColumnsLastChildFirst(pg, colNames) ==
    IF pg.Header.Type \in {LeafTablePage, LeafIndexPage}
    THEN [c \in 1..Len(pg.Cells) |->
            [i \in 1..Len(colNames) |->
                IF Contains(colNames[i], <<105, 100>>)
                THEN Itoa(pg.Cells[c].RowID)
                ELSE pg.Cells[c].Keys[i]]]
    ELSE Flatten(Reverse([k \in 1..Len(pg.Pages) |->
                            GetTableColumnsLastChildFirst(pg.Pages[k], colNames)]))

\* Page.GetTableColumns: one row per cell of the leaves, left to right; a
\* column whose declaration contains "id" reports the row-id
RECURSIVE GetTableColumns(_, _)
GetTableColumns(pg, colNames) ==
    IF pg.Header.Type \in {LeafTablePage, LeafIndexPage}
    THEN [c \in 1..Len(pg.Cells) |->
            [i \in 1..Len(colNames) |->
                IF Contains(colNames[i], <<105, 100>>)
                THEN Itoa(pg.Cells[c].RowID)
                ELSE pg.Cells[c].Keys[i]]]
    ELSE Flatten([k \in 1..Len(pg.Pages) |-> GetTableColumns(pg.Pages[k], colNames)])

GetAllRows(pg, cols) == GetTableColumns(pg, cols)

\* GetFilteredRowIDs: the row-id (second key column) of every cell the index
\* walk kept on a leaf
RECURSIVE GetFilteredRowIDs(_)
GetFilteredRowIDs(pg) ==
    IF pg.Header.Type = LeafIndexPage
    THEN [c \in 1..Len(pg.Cells) |-> bytesToInt(pg.Cells[c].Keys[2])]
    ELSE Flatten([k \in 1..Len(pg.Pages) |-> GetFilteredRowIDs(pg.Pages[k])])

---------------------------------------------------------------------------
(* The evaluator.                                                          *)

\* the 0-based index of the first declared column containing name, or -1
\* (slices.IndexFunc with strings.Contains)
ColIndex(colNames, name) ==
    LET hits == {i \in 1..Len(colNames) : Contains(colNames[i], name)}
    IN  IF hits = {} THEN -1 ELSE SetMin(hits) - 1

\* Where.FilterEqual: result is the rows followed by the column names; colIdx
\* stays 0 when no declared column contains where.left
FilterEqual(where, result) ==
    LET colNames == result[Len(result)]
        rows     == SubSeq(result, 1, Len(result) - 1)
        found    == ColIndex(colNames, where.left)
        colIdx   == IF found = -1 THEN 0 ELSE found
    IN  [result |-> Append(SelectSeq(rows,
                               LAMBDA row : ToLower(row[colIdx + 1]) = where.right),
                           colNames),
         err |-> ""]

\* Query.EvaluateWhere
EvaluateWhere(stmt, result) ==
    IF ~stmt.where.present THEN [result |-> result, err |-> ""]
    ELSE IF stmt.where.op = chEq THEN FilterEqual(stmt.where, result)
    ELSE [result |-> <<>>, err |-> "WHERE operator not yet implemented"]

\* a projection that gives the wanted columns in the order of the table
SelectColsInTableOrder(stmt, result) ==
    LET colNames == result[Len(result)]
        rows     == SubSeq(result, 1, Len(result) - 1)
        wanted   == {ColIndex(colNames, stmt.cols[k]) + 1 : k \in 1..Len(stmt.cols)} \ {0}
        inOrder  == SelectSeq([j \in 1..Len(colNames) |-> j], LAMBDA j : j \in wanted)
    IN  [i \in 1..Len(rows) |-> [k \in 1..Len(inOrder) |-> rows[i][inOrder[k]]]]

\* SelectStatement.SelectCols: per row, the values of the wanted columns that
\* match a declared column, in the order of stmt.cols
SelectCols(stmt, result) ==
    LET colNames == result[Len(result)]
        rows     == SubSeq(result, 1, Len(result) - 1)
        wanted   == SelectSeq(stmt.cols, LAMBDA colName : ColIndex(colNames, colName) # -1)
    IN  [i \in 1..Len(rows) |->
            [k \in 1..Len(wanted) |-> rows[i][ColIndex(colNames, wanted[k]) + 1]]]

FlattenResult(rows) == [i \in 1..Len(rows) |-> Join(rows[i], chPipe)]

\* Query.EvaluateStmt
EvaluateStmt(stmt, d, rootPage) ==
    LET cols   == GetTableColNames(d, stmt.from)
        rows   == GetAllRows(rootPage, cols)
        result == Append(rows, cols)
        w      == EvaluateWhere(stmt, result)
    IN  IF stmt.cols = <<chStar>>
        THEN [result |-> FlattenResult(rows), err |-> ""]
        ELSE IF w.err # "" THEN [result |-> <<>>, err |-> w.err]
        ELSE [result |-> FlattenResult(SelectCols(stmt, w.result)), err |-> ""]

\* EvaluateFunc counting the column-name row that EvaluateStmt appends to the
\* rows before the WHERE
EvaluateFuncCountingNames(stmt, result) ==
    IF stmt.function = "COUNT"
    THEN [result |-> <<Itoa(Len(result) + 1)>>, err |-> ""]
    ELSE [result |-> <<>>, err |-> "function not yet implemented"]

\* Query.EvaluateFunc
EvaluateFunc(stmt, result) ==
    IF stmt.function = "COUNT"
    THEN [result |-> <<Itoa(Len(result))>>, err |-> ""]
    ELSE [result |-> <<>>, err |-> "function not yet implemented"]

\* SelectStatement.CheckForIndexPage: the table walked with the row-ids that
\* the first index on a column named where.left yields for where.right
CheckForIndexPage(stmt, d, f) ==
    LET idxPageName == GetIndexPageName(d, stmt.where.left)
        idxPage     == GetRootPageByName(d, f, idxPageName, IndexFilter(stmt.where.right))
        rowIds      == GetFilteredRowIDs(idxPage.page)
    IN  IF ~stmt.where.present THEN [page |-> NoPage, err |-> "no where clause"]
        ELSE IF idxPageName = <<>>
             THEN [page |-> NoPage, err |-> "no index page found for where clause"]
        ELSE IF idxPage.err # "" THEN [page |-> NoPage, err |-> idxPage.err]
        ELSE GetRootPageByName(d, f, stmt.from, TableFilter(rowIds))

\* the rest of HandleCommand once the statement and its root page are there
Evaluate(stmt, d, root) ==
    LET r == EvaluateStmt(stmt, d, root.page)
        c == EvaluateFunc(stmt, r.result)
    IN  IF root.err # ""
        THEN [result |-> <<>>, err |-> root.err, panic |-> FALSE,
              stmt |-> stmt, rootPage |-> NoPage]
        ELSE IF stmt.function = "" \/ r.err # ""
        THEN [result |-> r.result, err |-> r.err, panic |-> FALSE,
              stmt |-> stmt, rootPage |-> root.page]
        ELSE [result |-> c.result, err |-> c.err, panic |-> FALSE,
              stmt |-> stmt, rootPage |-> root.page]

\* HandleCommand handing the input to the parser as typed
HandleCommandAsTyped(input, d, f) ==
    LET p     == ParseSelectStatement(input)
        idx   == CheckForIndexPage(p.stmt, d, f)
        plain == GetRootPageByName(d, f, p.stmt.from, NilFilter)
    IN  IF p.panic \/ p.err # ""
        THEN [result |-> <<>>, err |-> p.err, panic |-> p.panic,
              stmt |-> NoStmt, rootPage |-> NoPage]
        ELSE Evaluate(p.stmt, d, IF idx.err = "" THEN idx ELSE plain)

\* HandleCommand: the input is lower-cased as a whole before it is parsed
HandleCommand(input, d, f) ==
    LET p     == ParseSelectStatement(ToLower(input))
        idx   == CheckForIndexPage(p.stmt, d, f)
        plain == GetRootPageByName(d, f, p.stmt.from, NilFilter)
    IN  IF p.panic \/ p.err # ""
        THEN [result |-> <<>>, err |-> p.err, panic |-> p.panic,
              stmt |-> NoStmt, rootPage |-> NoPage]
        ELSE Evaluate(p.stmt, d, IF idx.err = "" THEN idx ELSE plain)

\* HandleCommand with the index lookup disabled: the root page is always the
\* one of the fallback, GetRootPageByName(tableName)
HandleCommandNoIndex(input, d, f) ==
    LET p == ParseSelectStatement(ToLower(input))
    IN  IF p.panic \/ p.err # ""
        THEN [result |-> <<>>, err |-> p.err, panic |-> p.panic,
              stmt |-> NoStmt, rootPage |-> NoPage]
        ELSE Evaluate(p.stmt, d, GetRootPageByName(d, f, p.stmt.from, NilFilter))

---------------------------------------------------------------------------
(* The walker of btree.go.                                                 *)

\* ReadHeader
ReadHeader(raw) ==
    [Type |-> raw.Type, CellCount |-> Len(raw.Cells),
     RightMostPointer |-> IF raw.Type \in {InteriorTablePage, InteriorIndexPage}
                          THEN raw.RightMostPointer ELSE 0]

\* ReadCellPtrs: the cells of the page, one per cell pointer, for the four
\* page types; no cell for any other type byte
ReadCellPtrs(raw) ==
    IF raw.Type \in {LeafTablePage, LeafIndexPage, InteriorIndexPage, InteriorTablePage}
    THEN raw.Cells ELSE <<>>

RECURSIVE TraverseBTree(_, _)
TraverseBTree(f, pageNumber) ==
    LET raw    == ReadPage(f, pageNumber)
        header == ReadHeader(raw)
        cells  == ReadCellPtrs(raw)
    IN  IF header.Type \in {LeafTablePage, LeafIndexPage}
        THEN [Header |-> header, Cells |-> cells, Pages |-> <<>>]
        ELSE [Header |-> header, Cells |-> cells,
              Pages |-> [i \in 1..Len(cells) |->
                            TraverseBTree(f, cells[i].LeftChildPointer)]]

\* Page.GetTablePageNumber over the Tables that ReadTableLeafCell collects
\* from page 1
GetTablePageNumber(f, name) ==
    LET cells == ReadCellPtrs(ReadPage(f, 1))
        hits  == {i \in 1..Len(cells) : cells[i].Keys[2] = name}
    IN  IF hits = {} THEN [pageNum |-> -1, err |-> "page name not found"]
        ELSE [pageNum |-> bytesToInt(cells[SetMin(hits)].Keys[4]), err |-> ""]

\* Page.GetPageByName
GetPageByName(f, name) ==
    LET r == GetTablePageNumber(f, name)
    IN  IF r.err # "" THEN [tree |-> NoPage, name |-> name, err |-> r.err]
        ELSE [tree |-> TraverseBTree(f, r.pageNum), name |-> name, err |-> ""]

\* Page.GetTableRowCount
RECURSIVE GetTableRowCount(_)
RECURSIVE SumRowCounts(_, _)
SumRowCounts(pages, i) ==
    IF i > Len(pages) THEN 0
    ELSE GetTableRowCount(pages[i]) + SumRowCounts(pages, i + 1)

GetTableRowCount(pg) ==
    IF pg.Header.Type \in {LeafTablePage, LeafIndexPage}
    THEN pg.Header.CellCount
    ELSE SumRowCounts(pg.Pages, 1)

---------------------------------------------------------------------------
(* The command texts handed to HandleCommand.  A command is put together   *)
(* from its parts with single spaces; a part that is absent is left out.   *)

ToUpper(s) == [i \in 1..Len(s) |-> IF s[i] \in 97..122 THEN s[i] - 32 ELSE s[i]]
Capital(s) == [i \in 1..Len(s) |-> IF i = 1 /\ s[i] \in 97..122 THEN s[i] - 32 ELSE s[i]]

Styles == {"lower", "upper", "capital", "mixed"}

\* a keyword in the letter case of the style; "mixed" is SELECT from Where cOUNT
Keyword(style, kw) ==
    CASE style = "lower"   -> kw
      [] style = "upper"   -> ToUpper(kw)
      [] style = "capital" -> Capital(kw)
      [] OTHER -> IF kw = kwSelect THEN ToUpper(kw)
                  ELSE IF kw = kwFrom THEN kw
                  ELSE IF kw = kwWhere THEN Capital(kw)
                  ELSE <<kw[1]>> \o ToUpper(Tail(kw))

\* "name", "id, name", "nosuch"
txtName   == <<110, 97, 109, 101>>
txtIdName == <<105, 100, 44, 32, 110, 97, 109, 101>>
txtNoSuch == <<110, 111, 115, 117, 99, 104>>
\* "name, id", "color, id, name", "id,name", "id ,  name", "nosuch, name"
txtNameId      == <<110, 97, 109, 101, 44, 32, 105, 100>>
txtColorIdName == <<99, 111, 108, 111, 114, 44, 32, 105, 100, 44, 32, 110, 97,
                  109, 101>>
txtIdNameTight == <<105, 100, 44, 110, 97, 109, 101>>
txtIdNameLoose == <<105, 100, 32, 44, 32, 32, 110, 97, 109, 101>>
txtNoSuchName  == <<110, 111, 115, 117, 99, 104, 44, 32, 110, 97, 109, 101>>

\* projections: fn is TRUE for count(args)
FromNames == {nmApples, nmCompanies, nmPears, txtNoSuch, <<>>}

\* the text after WHERE; <<>> is a WHERE keyword followed by nothing
\* "color = 'Red'", "color = 'blush red'", "country = 'chad'",
\* "country = 'Peru'", "color < 'Red'", "color", "color ="
condRed      == <<99, 111, 108, 111, 114, 32, 61, 32, 39, 82, 101, 100, 39>>
condBlushRed == <<99, 111, 108, 111, 114, 32, 61, 32, 39, 98, 108, 117, 115, 104,
                  32, 114, 101, 100, 39>>
condChad     == <<99, 111, 117, 110, 116, 114, 121, 32, 61, 32, 39, 99, 104, 97, 100, 39>>
condPeru     == <<99, 111, 117, 110, 116, 114, 121, 32, 61, 32, 39, 80, 101, 114, 117, 39>>
condLess     == <<99, 111, 108, 111, 114, 32, 60, 32, 39, 82, 101, 100, 39>>
condLeft     == <<99, 111, 108, 111, 114>>
condLeftOp   == <<99, 111, 108, 111, 114, 32, 61>>
\* "color = ''red''", "color = 'red", "nosuch = '1'"
condTwoQuotes == <<99, 111, 108, 111, 114, 32, 61, 32, 39, 39, 114, 101, 100,
                  39, 39>>
condOpenQuote == <<99, 111, 108, 111, 114, 32, 61, 32, 39, 114, 101, 100>>
condNoSuch    == <<110, 111, 115, 117, 99, 104, 32, 61, 32, 39, 49, 39>>

\* "name", "id, name"; count(*), count(name)
pStar      == [fn |-> FALSE, args |-> chStar]
pName      == [fn |-> FALSE, args |-> txtName]
pIdName    == [fn |-> FALSE, args |-> txtIdName]
pEmpty     == [fn |-> FALSE, args |-> <<>>]
pCountStar == [fn |-> TRUE,  args |-> chStar]
pCountName == [fn |-> TRUE,  args |-> txtName]
pNameId      == [fn |-> FALSE, args |-> txtNameId]
pColorIdName == [fn |-> FALSE, args |-> txtColorIdName]
pIdNameTight == [fn |-> FALSE, args |-> txtIdNameTight]
pIdNameLoose == [fn |-> FALSE, args |-> txtIdNameLoose]
pNoSuch      == [fn |-> FALSE, args |-> txtNoSuch]
pNoSuchName  == [fn |-> FALSE, args |-> txtNoSuchName]

\* hasSelect / hasFrom / hasWhere: whether the keyword is in the text
Cmds(styles, projs, froms, conds) ==
    [style : styles, hasSelect : {TRUE}, proj : projs, hasFrom : {TRUE},
     from : froms, hasWhere : {TRUE}, cond : conds]

CmdsNoWhere(styles, projs, froms) ==
    [style : styles, hasSelect : {TRUE}, proj : projs, hasFrom : {TRUE},
     from : froms, hasWhere : {FALSE}, cond : {<<>>}]

Commands ==
    \* the keywords in every letter case
    Cmds(Styles, {pName, pCountStar}, {nmApples}, {condRed})
    \cup CmdsNoWhere(Styles, {pName, pCountStar}, {nmApples})
    \* a table without an index
    \cup Cmds({"lower"}, {pStar, pName, pIdName, pCountStar, pCountName}, {nmApples},
              {condRed, condBlushRed, condLess})
    \cup CmdsNoWhere({"lower"}, {pStar, pIdName, pEmpty, pCountName}, {nmApples})
    \* a table with an index on the column of the WHERE
    \cup Cmds({"lower"}, {pStar, pName, pIdName, pCountStar, pCountName}, {nmCompanies},
              {condChad, condPeru})
    \cup CmdsNoWhere({"lower"}, {pStar, pName, pCountStar}, {nmCompanies})
    \* other names after FROM
    \cup CmdsNoWhere({"lower"}, {pStar, pName, pCountStar}, {nmPears, txtNoSuch, <<>>})
    \* a WHERE that is not (left, op, right)
    \cup Cmds({"lower"}, {pName}, {nmApples}, {condLeft, condLeftOp, <<>>})
    \* projection lists in another order than the table's, and with other
    \* spacing around the comma
    \cup Cmds({"lower"}, {pNameId, pColorIdName}, {nmApples}, {condRed})
    \cup CmdsNoWhere({"lower"}, {pNameId, pColorIdName, pIdNameTight, pIdNameLoose},
                     {nmApples})
    \cup Cmds({"lower"}, {pNameId}, {nmCompanies}, {condChad})
    \* projected names that no declared column has
    \cup Cmds({"lower"}, {pNoSuch, pNoSuchName}, {nmApples}, {condRed})
    \cup CmdsNoWhere({"lower"}, {pNoSuch, pNoSuchName}, {nmApples})
    \* literals with other quoting
    \cup Cmds({"lower"}, {pName}, {nmApples}, {condTwoQuotes, condOpenQuote})
    \* a WHERE column the table does not have: unknown, and indexed on
    \* another table
    \cup Cmds({"lower"}, {pStar, pName, pCountStar}, {nmApples},
              {condNoSuch, condChad})
    \* no SELECT, no FROM
    \cup [style : {"lower"}, hasSelect : BOOLEAN, proj : {pName}, hasFrom : BOOLEAN,
          from : {nmApples}, hasWhere : {FALSE}, cond : {<<>>}]

ProjectionText(c) ==
    IF c.proj.fn
    THEN Keyword(c.style, kwCount) \o <<40>> \o c.proj.args \o <<41>>
    ELSE c.proj.args

CommandText(c) ==
    Join(SelectSeq(
            << IF c.hasSelect THEN Keyword(c.style, kwSelect) ELSE <<>>,
               ProjectionText(c),
               IF c.hasFrom THEN Keyword(c.style, kwFrom) ELSE <<>>,
               c.from,
               IF c.hasWhere THEN Keyword(c.style, kwWhere) ELSE <<>>,
               IF c.hasWhere THEN c.cond ELSE <<>> >>,
            LAMBDA part : part # <<>>),
         chSpace)

NoCommand ==
    [parts |-> [style |-> "lower", hasSelect |-> FALSE, proj |-> [fn |-> FALSE, args |-> <<>>],
                hasFrom |-> FALSE, from |-> <<>>, hasWhere |-> FALSE, cond |-> <<>>],
     text |-> <<>>]

\* no decoder has been called
NoDecode == [op |-> "", src |-> <<>>, buf |-> <<>>, res |-> <<>>]

---------------------------------------------------------------------------
(* The program.                                                            *)

\* NewSQLite on a database file
Init ==
    /\ \E n \in 0..MaxRows : file = DatabaseFile(n)
    /\ db = NewSQLite(file)
    /\ running = TRUE
    /\ cmd = NoCommand
    /\ out = [result |-> <<>>, err |-> "", panic |-> FALSE,
              stmt |-> NoStmt, rootPage |-> NoPage]
    /\ page = [tree |-> NoPage, name |-> <<>>, err |-> ""]
    /\ iteration \in {"sqlite", "btree"}
    /\ dec = NoDecode

\* HandleCommand(input, db); a panic ends the process
Query(c) ==
    /\ iteration = "sqlite"
    /\ running
    /\ cmd' = [parts |-> c, text |-> CommandText(c)]
    /\ out' = HandleCommand(cmd'.text, db, file)
    /\ running' = ~out'.panic
    /\ UNCHANGED <<file, db, page, iteration, dec>>

\* rootPage.GetPageByName(name) of btree.go
Traverse(name) ==
    /\ iteration = "btree"
    /\ running
    /\ page' = GetPageByName(file, name)
    /\ UNCHANGED <<file, db, running, cmd, out, iteration, dec>>

Next ==
    \/ \E c \in Commands : Query(c)
    \/ \E name \in FromNames : Traverse(name)

Spec == Init /\ [][Next]_vars

---------------------------------------------------------------------------
(* Properties of the query engine.                                         *)

\* a HandleCommand call has been made and has returned (no panic)
Queried  == iteration = "sqlite" /\ cmd # NoCommand
Returned == Queried /\ ~out.panic
\* the call got past ParseSelectStatement
Parsed   == Returned /\ out.stmt # NoStmt

\* the catalog has an entry of this name
InCatalog(d, name) == \E i \in 1..Len(d.tables) : d.tables[i].Name = name

\* C1: for a query SELECT <proj> FROM T WHERE col = lit in which col is
\* covered by an index, the result produced through the index path equals
\* the result of the same query evaluated with index lookup disabled
C1_IndexPathEqualsFullWalk ==
    (/\ Parsed
     /\ out.stmt.where.present
     /\ out.stmt.where.op = chEq
     /\ GetIndexPageName(db, out.stmt.where.left) # <<>>)
    => LET plain == HandleCommandNoIndex(cmd.text, db, file)
       IN  /\ out.result = plain.result
           /\ out.err = plain.err

\* the rows of the table whose column where.left equals where.right ignoring
\* letter case, read off the unfiltered walk of the table
MatchingRows(stmt, d, f) ==
    LET colNames == GetTableColNames(d, stmt.from)
        rows     == GetAllRows(GetRootPageByName(d, f, stmt.from, NilFilter).page, colNames)
        colIdx   == ColIndex(colNames, stmt.where.left)
    IN  SelectSeq(rows, LAMBDA row :
            ToLower(row[colIdx + 1]) = ToLower(stmt.where.right))

\* what the projection of the statement makes of these rows
Projected(stmt, d, rows) ==
    LET colNames == GetTableColNames(d, stmt.from)
        lines    == IF stmt.cols = <<chStar>> THEN FlattenResult(rows)
                    ELSE FlattenResult(SelectCols(stmt, Append(rows, colNames)))
    IN  IF stmt.function = "COUNT" THEN <<Itoa(Len(lines))>> ELSE lines

\* C2: for a query with WHERE col = lit for which no index is used, the rows
\* that contribute to the result are exactly the rows of the table whose col
\* equals lit ignoring letter case, for the projections *, a column list and
\* COUNT(...) (whose result is the number of matching rows)
C2_WhereKeepsExactlyMatchingRows ==
    (/\ Parsed
     /\ out.stmt.where.present
     /\ out.stmt.where.op = chEq
     /\ GetIndexPageName(db, out.stmt.where.left) = <<>>
     /\ InCatalog(db, out.stmt.from)
     /\ ColIndex(GetTableColNames(db, out.stmt.from), out.stmt.where.left) # -1)
    => /\ out.err = ""
       /\ out.result = Projected(out.stmt, db, MatchingRows(out.stmt, db, file))

\* the command whose parts are those of c with another projection
WithProjection(c, proj) == [c EXCEPT !.proj = proj]

RECURSIVE LeafTableCells(_, _)
RECURSIVE LeafTableCellsBelow(_, _, _)
LeafTableCellsBelow(f, cells, i) ==
    IF i > Len(cells) THEN <<>>
    ELSE LeafTableCells(f, cells[i].LeftChildPointer) \o LeafTableCellsBelow(f, cells, i + 1)

LeafTableCells(f, pageNum) ==
    LET raw == f.pages[pageNum]
    IN  IF raw.Type = LeafTablePage THEN raw.Cells
        ELSE IF raw.Type = InteriorTablePage
             THEN LeafTableCellsBelow(f, raw.Cells, 1) \o LeafTableCells(f, raw.RightMostPointer)
        ELSE <<>>

\* the root page the schema page of the file gives for a table name
SchemaRootPage(f, name) ==
    LET cells == f.pages[1].Cells
    IN  bytesToInt(cells[CHOOSE i \in 1..Len(cells) : cells[i].Keys[SchemaNameIdx + 1] = name]
                       .Keys[SchemaRootPageIdx + 1])

\* C4: an unfiltered walk of a table B-tree descends every left-child
\* pointer and the right-most pointer of every interior page, so a full scan
\* yields exactly one row per leaf-table cell of the tree: the walk of
\* TraverseBTree counts them all, and SELECT * returns one line for each
C4_WalkYieldsEveryLeafCell ==
    /\ (iteration = "btree" /\ page.name # <<>> /\ page.err = "")
       => GetTableRowCount(page.tree)
            = Len(LeafTableCells(file, SchemaRootPage(file, page.name)))
    /\ (/\ Returned /\ out.err = ""
        /\ out.stmt.cols = <<chStar>> /\ out.stmt.function = ""
        /\ ~out.stmt.where.present)
       => Len(out.result) = Len(LeafTableCells(file, SchemaRootPage(file, out.stmt.from)))

\* strconv.Atoi of a decimal numeral
RECURSIVE Atoi(_)
Atoi(s) == IF Len(s) = 0 THEN 0 ELSE Atoi(SubSeq(s, 1, Len(s) - 1)) * 10 + (s[Len(s)] - 48)

\* the row-ids of the leaf-table cells in the order the walk emits them: the
\* id column of the rows of the page tree
EmittedRowIDs(pg) ==
    LET rows == GetTableColumns(pg, << <<105, 100>> >>)
    IN  [i \in 1..Len(rows) |-> Atoi(rows[i][1])]

StrictlyAscending(seq) == \A i \in 1..(Len(seq) - 1) : seq[i] < seq[i + 1]

\* C5: for a well-formed table B-tree, the sequence of leaf-table cells the
\* walk emits (children in cell-pointer order, the cells of a leaf in
\* cell-pointer order) has strictly ascending row-ids
C5_EmittedRowIDsAscend ==
    /\ (Returned /\ out.err = "") => StrictlyAscending(EmittedRowIDs(out.rootPage))
    /\ (iteration = "btree" /\ page.err = "") => StrictlyAscending(EmittedRowIDs(page.tree))

\* an unfiltered walk has emitted the cells of two leaves under an interior
\* page, more than one cell in the first of them
C5_Witness ==
    /\ Returned /\ out.err = "" /\ ~out.stmt.where.present
    /\ out.rootPage.Header.Type = InteriorTablePage
    /\ Len(out.rootPage.Pages) >= 2
    /\ Len(out.rootPage.Pages[1].Cells) >= 2
    /\ Len(EmittedRowIDs(out.rootPage)) = MaxRows

\* C6: a query whose FROM names a table without a catalog entry returns an
\* error, and a query whose FROM name is the name of a catalog entry,
\* whatever the letter case of that name in the schema, resolves the root
\* page of the entry and is evaluated
C6_CatalogLookupByName ==
    (/\ Returned
     /\ cmd.parts.hasSelect /\ cmd.parts.hasFrom /\ cmd.parts.proj.args # <<>>)
    => /\ ~InCatalog(db, cmd.parts.from) => out.err # "" /\ out.result = <<>>
       /\ InCatalog(db, cmd.parts.from)
          => /\ out.err # "page name not found"
             /\ out.rootPage.Header.Type \in {LeafTablePage, InteriorTablePage}
             /\ ~cmd.parts.hasWhere
                => out.rootPage = ParseTablePage(file, SchemaRootPage(file, cmd.parts.from),
                                                 NilFilter).page

\* the command lacks a clause it needs, or its WHERE has fewer than the three
\* tokens left, op, right
Malformed(c) ==
    \/ ~c.hasSelect \/ c.proj.args = <<>>
    \/ ~c.hasFrom \/ c.from = <<>>
    \/ c.hasWhere /\ Len(Split(c.cond, chSpace)) < 3

\* C7: parsing returns a parse error (an error value, not a crash and not a
\* statement) whenever the SELECT clause or the FROM clause is missing or
\* empty, or a WHERE clause is present that is not of the form left op right
C7_MalformedIsParseError ==
    (Queried /\ Malformed(cmd.parts))
    => /\ ~out.panic
       /\ out.err # ""
       /\ out.stmt = NoStmt

\* C8: a query whose WHERE operator is not "=" returns the error of an
\* unsupported operator and no rows, for the projections *, a column list
\* and COUNT
C8_OtherOperatorIsUnsupported ==
    (/\ Parsed
     /\ out.stmt.where.present
     /\ out.stmt.where.op # chEq
     /\ InCatalog(db, out.stmt.from))
    => /\ out.err = "WHERE operator not yet implemented"
       /\ out.result = <<>>

\* C9: a query call that fails ends only that call: the process goes on and
\* the database object (file handle, page size, catalog) is the one built at
\* open, so after any sequence of queries a query returns what it returns
\* on a freshly opened database
C9_FailureEndsOnlyTheCall ==
    iteration = "sqlite"
    => /\ running
       /\ db = NewSQLite(file)
       /\ Queried => out = HandleCommand(cmd.text, NewSQLite(file), file)

\* C10: a variant of a query text that differs only in the letter case of
\* the keywords SELECT, FROM, WHERE and COUNT parses to the same statement
\* and returns the same result: every command does what its lower-case
\* variant does
C10_KeywordCaseInsensitive ==
    Queried
    => LET lower == HandleCommand(CommandText([cmd.parts EXCEPT !.style = "lower"]), db, file)
       IN  /\ out.stmt = lower.stmt
           /\ out.result = lower.result
           /\ out.err = lower.err
           /\ out.panic = lower.panic

\* SELECT cOUNT(*) from apples Where color = 'Red' has returned a count
C10_Witness ==
    /\ Returned
    /\ cmd.parts.style = "mixed"
    /\ cmd.parts.hasWhere /\ cmd.parts.proj.fn
    /\ out.stmt.function = "COUNT" /\ out.stmt.where.present
    /\ out.err = "" /\ Len(out.result) = 1

---------------------------------------------------------------------------
(* The decoders of btree.go on bytes.  A uint64 is the sequence of its 64  *)
(* bits, most significant first, so that shifts lose the bits they lose in *)
(* Go.                                                                     *)

\* bytes of a varint that are drawn: up to MaxVarIntBytes bytes with the
\* high bit set, then a byte without
MaxVarIntBytes == 10

\* uint64(b) of a byte or a small int
U64(b) == [i \in 1..64 |-> IF 64 - i < 31 THEN (b \div (2 ^ (64 - i))) % 2 ELSE 0]
ShiftLeft(v, k) == [i \in 1..64 |-> IF i + k <= 64 THEN v[i + k] ELSE 0]
Or(v, w) == [i \in 1..64 |-> IF v[i] = 1 \/ w[i] = 1 THEN 1 ELSE 0]

\* ReadVarInt: big-endian, 7 bits of every byte up to the first byte with
\* the high bit clear; n is 0 when the buffer ends before such a byte
RECURSIVE ReadVarIntFrom(_, _, _)
ReadVarIntFrom(buf, i, result) ==
    IF i > Len(buf) THEN [value |-> result, n |-> 0]
    ELSE LET r == Or(ShiftLeft(result, 7), U64(buf[i] % 128))
         IN  IF buf[i] < 128 THEN [value |-> r, n |-> i]
             ELSE ReadVarIntFrom(buf, i + 1, r)

ReadVarInt(buf) == ReadVarIntFrom(buf, 1, U64(0))

\* binary.Uvarint, which ReadTableLeafCell, ReadIndexLeafCell and
\* ReadIndexInteriorCell read the payload size with: little-endian base 128,
\* (0, 0) on a buffer that ends early, (0, -(i+1)) on overflow
RECURSIVE UvarintFrom(_, _, _, _)
UvarintFrom(buf, i, x, s) ==
    IF i > Len(buf) THEN [value |-> U64(0), n |-> 0]
    ELSE IF i - 1 = 10 THEN [value |-> U64(0), n |-> -i]
    ELSE IF buf[i] < 128
         THEN IF i - 1 = 9 /\ buf[i] > 1 THEN [value |-> U64(0), n |-> -i]
              ELSE [value |-> Or(x, ShiftLeft(U64(buf[i]), s)), n |-> i]
    ELSE UvarintFrom(buf, i + 1, Or(x, ShiftLeft(U64(buf[i] % 128), s)), s + 7)

Uvarint(buf) == UvarintFrom(buf, 1, U64(0), 0)

\* int(x) of a uint64: negative when the top bit is set; a value of 2^31 or
\* more is held as 2^31 - 1, which exceeds every length of the model
RECURSIVE LowBits(_, _)
LowBits(v, i) == IF i > 64 THEN 0 ELSE v[i] * (2 ^ (64 - i)) + LowBits(v, i + 1)

IntOf(v) ==
    IF v[1] = 1 THEN -1
    ELSE IF \E i \in 2..33 : v[i] = 1 THEN 2147483647
    ELSE LowBits(v, 34)

\* buf[lo:hi] of Go; the slice expression panics unless 0 <= lo <= hi <= cap,
\* and the buffers ReadRecord gets end where their array ends
InBounds(buf, lo, hi) == 0 <= lo /\ lo <= hi /\ hi <= Len(buf)

\* ReadRecord, the header loop: while n < headerSize, one column type per
\* varint.  A varint of length 0 (the buffer ends) leaves n as it was, and
\* the loop goes round for ever
RECURSIVE ReadColumnTypes(_, _, _, _)
ReadColumnTypes(buf, n, headerSize, types) ==
    IF ~(n < headerSize) THEN [types |-> types, n |-> n, hang |-> FALSE]
    ELSE LET v == ReadVarInt(Slice(buf, n, Len(buf)))
         IN  IF v.n = 0 THEN [types |-> types, n |-> n, hang |-> TRUE]
             ELSE ReadColumnTypes(buf, n + v.n, headerSize, Append(types, IntOf(v.value)))

\* the integer and float cases taken to read as many bytes as the code says
FixedWidthIsCode(colType) == colType

\* ReadRecord, the bytes read in the cases colType == 1 .. colType == 7
FixedWidth(colType) ==
    CASE colType \in 1..4 -> colType
      [] colType = 5 -> 6
      [] OTHER -> 8

\* ReadRecord, the switch on the column type: the key appended (if any) and
\* the bytes n advances by
ReadKey(buf, n, colType) ==
    LET Fixed(w)   == [append |-> TRUE, lo |-> n, hi |-> n + w, key |-> <<>>, adv |-> w]
        Literal(b) == [append |-> TRUE, lo |-> 0, hi |-> 0, key |-> <<b>>, adv |-> 0]
        Sized(w)   == [append |-> TRUE, lo |-> n,
                    hi |-> IF w + n < Len(buf) THEN w + n ELSE Len(buf),
                    key |-> <<>>, adv |-> w]
    IN  CASE colType = 0 -> Literal(0)
          [] colType \in 1..7 -> Fixed(FixedWidth(colType))
          [] colType = 8 -> Literal(0)
          [] colType = 9 -> Literal(1)
          [] colType \in {10, 11} -> [append |-> FALSE, lo |-> 0, hi |-> 0, key |-> <<>>, adv |-> 0]
          [] colType >= 12 /\ colType % 2 = 0 -> Sized((colType - 12) \div 2)
          [] colType >= 13 /\ colType % 2 = 1 -> Sized((colType - 13) \div 2)
          [] OTHER -> [append |-> FALSE, lo |-> 0, hi |-> 0, key |-> <<>>, adv |-> 0]

\* ReadRecord, the loop over the column types
RECURSIVE ReadKeys(_, _, _, _, _)
ReadKeys(buf, types, i, n, keys) ==
    IF i > Len(types) THEN [keys |-> keys, n |-> n, panic |-> FALSE]
    ELSE LET k == ReadKey(buf, n, types[i])
         IN  IF ~k.append THEN ReadKeys(buf, types, i + 1, n + k.adv, keys)
             ELSE IF k.key # <<>> THEN ReadKeys(buf, types, i + 1, n, Append(keys, k.key))
             ELSE IF ~InBounds(buf, k.lo, k.hi) THEN [keys |-> keys, n |-> n, panic |-> TRUE]
             ELSE ReadKeys(buf, types, i + 1, n + k.adv,
                           Append(keys, Slice(buf, k.lo, k.hi)))

\* ReadRecord: the record, the bytes consumed, and how the call ended:
\* "ok" (a record is returned), "panic" (slice bounds out of range) or
\* "hang" (the header loop does not end); the function has no error result
ReadRecord(buf) ==
    LET h == ReadVarInt(buf)
        t == ReadColumnTypes(buf, h.n, IntOf(h.value), <<>>)
        k == ReadKeys(buf, t.types, 1, t.n, <<>>)
    IN  [HeaderSize  |-> IntOf(h.value),
         ColumnTypes |-> t.types,
         Keys        |-> IF t.hang THEN <<>> ELSE k.keys,
         n           |-> IF t.hang THEN t.n ELSE k.n,
         outcome     |-> IF t.hang THEN "hang" ELSE IF k.panic THEN "panic" ELSE "ok"]

\* k times the byte b
Repeat(b, k) == [i \in 1..k |-> b]

\* the buffers handed to the varint decoders: bytes with the high bit set,
\* a byte without (or the end of the buffer), and what follows in the page
VarIntBufs ==
    { Repeat(b, k) \o last \o rest :
        b \in {128, 129, 255}, k \in 0..MaxVarIntBytes,
        last \in {<<>>, <<0>>, <<1>>, <<127>>}, rest \in {<<>>, <<2>>} }

\* ReadVarInt(buf), as ReadTableLeafCell calls it for the row-id and
\* ReadRecord for the header of a record
VarInt(buf) ==
    /\ dec = NoDecode
    /\ dec' = [op |-> "ReadVarInt", src |-> <<>>, buf |-> buf, res |-> ReadVarInt(buf)]
    /\ UNCHANGED <<file, db, running, cmd, out, page, iteration>>

\* binary.Uvarint(buf), as the cell readers call it for the payload size
PayloadSize(buf) ==
    /\ dec = NoDecode
    /\ dec' = [op |-> "Uvarint", src |-> <<>>, buf |-> buf, res |-> Uvarint(buf)]
    /\ UNCHANGED <<file, db, running, cmd, out, page, iteration>>

\* columns of a record that are drawn, and the serial-type codes they are
\* drawn from: 0..MaxSerialCode
MaxCols == 2
MaxSerialCode == 17

\* serial_type_width of the file format
SerialTypeWidth(code) ==
    CASE code \in {0, 8, 9, 10, 11} -> 0
      [] code \in 1..4 -> code
      [] code = 5 -> 6
      [] code \in {6, 7} -> 8
      [] code >= 12 /\ code % 2 = 0 -> (code - 12) \div 2
      [] OTHER -> (code - 13) \div 2

\* the body bytes of column i of a record: each column has bytes of its own
ColumnBytes(i, code) == [j \in 1..SerialTypeWidth(code) |-> 32 * i + j]

RECURSIVE BodyBytes(_, _)
BodyBytes(codes, i) ==
    IF i > Len(codes) THEN <<>>
    ELSE ColumnBytes(i, codes[i]) \o BodyBytes(codes, i + 1)

\* a record as the format lays it out: the header size, one varint per
\* column (a single byte for these codes), the bodies
RecordBytes(codes) == <<1 + Len(codes)>> \o codes \o BodyBytes(codes, 1)

\* what ReadRecord is handed: the record alone ("exact"), the record and the
\* rest of the page after it ("page"), a record whose body lacks its last
\* byte ("short"), a record whose header size is more than the bytes there
\* are ("header")
RecordSources ==
    { s \in [codes : UNION {[1..k -> 0..MaxSerialCode] : k \in 1..MaxCols},
             shape : {"exact", "page", "short", "header"}] :
        s.shape = "short" => BodyBytes(s.codes, 1) # <<>> }

RecordBuf(s) ==
    LET rec == RecordBytes(s.codes)
    IN  CASE s.shape = "exact"  -> rec
          [] s.shape = "page"   -> rec \o <<170, 187>>
          [] s.shape = "short"  -> SubSeq(rec, 1, Len(rec) - 1)
          [] OTHER              -> <<Len(rec) + 1>> \o Tail(rec)

\* ReadRecord(buf), as ReadTableLeafCell calls it on the bytes after the
\* row-id
Record(s) ==
    /\ dec = NoDecode
    /\ dec' = [op |-> "ReadRecord", src |-> s, buf |-> RecordBuf(s),
               res |-> ReadRecord(RecordBuf(s))]
    /\ UNCHANGED <<file, db, running, cmd, out, page, iteration>>

\* the varint of the file format at the head of buf: the low 7 bits of each
\* of the first 8 bytes, ended by the first byte with the high bit clear;
\* all 8 bits of the 9th byte when none of the first 9 has it clear
RECURSIVE FormatVarIntFrom(_, _, _)
FormatVarIntFrom(buf, i, value) ==
    IF i = 9 /\ buf[i] >= 128
    THEN [value |-> Or(ShiftLeft(value, 8), U64(buf[i])), n |-> 9]
    ELSE LET r == Or(ShiftLeft(value, 7), U64(buf[i] % 128))
         IN  IF buf[i] < 128 THEN [value |-> r, n |-> i]
             ELSE FormatVarIntFrom(buf, i + 1, r)

FormatVarInt(buf) == FormatVarIntFrom(buf, 1, U64(0))

\* buf holds a whole varint: a byte with the high bit clear among the first
\* 9, or 9 bytes
HoldsVarInt(buf) ==
    \/ Len(buf) >= 9
    \/ \E i \in 1..Len(buf) : buf[i] < 128

\* C11: the varint decoder returns, for every byte buffer, the value and
\* the length of the varint of the format: big-endian, 7 bits of each of the
\* first 8 bytes, ended by the first byte with the high bit clear, all 8
\* bits of the 9th byte otherwise; the length is in 1..9.  This is so for
\* the row-id and record varints (ReadVarInt) and for the payload size
\* (binary.Uvarint)
C11_VarIntValueAndLength ==
    (dec.op \in {"ReadVarInt", "Uvarint"} /\ HoldsVarInt(dec.buf))
    => /\ dec.res.n \in 1..9
       /\ dec.res.n = FormatVarInt(dec.buf).n
       /\ dec.res.value = FormatVarInt(dec.buf).value

---------------------------------------------------------------------------
(* The page readers of btree.go on the bytes of a file.                    *)

\* the page size of the files read, their number of pages, and the largest
\* number of cells on the page that is read
PageSize == 256
NumPages == 3
MaxCells == 2

\* file.ReadAt(buf, off) with len(buf) = len: the bytes from offset off;
\* what lies past the end of the file is left zero
ReadAt(f, len, off) ==
    [j \in 1..len |-> IF off + j >= 1 /\ off + j <= Len(f) THEN f[off + j] ELSE 0]

\* binary.Read(..., binary.BigEndian, ...) of an unsigned field
BigEndian(bytes) == bytesToInt(bytes)

\* int16 of two bytes read big-endian
Int16(v) == IF v >= 32768 THEN v - 65536 ELSE v

Interior(pageType) == pageType \in {InteriorTablePage, InteriorIndexPage}

\* NewHeader: Raw of 12 bytes for an interior page, 8 for any other type
NewHeader(pageType) ==
    [Type |-> pageType,
     Raw  |-> Repeat(0, IF Interior(pageType) THEN 12 ELSE 8),
     CellCount |-> 0, RightMostPointer |-> 0]

\* ReadHeader(offset, file); err when a ReadAt fails (log.Fatal)
ReadHeaderAt(offset, f) ==
    IF offset < 0 \/ offset >= Len(f) THEN [err |-> TRUE, header |-> NewHeader(0)]
    ELSE LET header == NewHeader(f[offset + 1])
             Raw    == ReadAt(f, Len(header.Raw), offset)
         IN  IF offset + Len(header.Raw) > Len(f)
             THEN [err |-> TRUE, header |-> header]
             ELSE [err |-> FALSE,
                   header |-> [Type |-> header.Type,
                               Raw  |-> Raw,
                               CellCount |-> BigEndian(SubSeq(Raw, 4, 5)),
                               RightMostPointer |->
                                   IF Interior(header.Type)
                                   THEN BigEndian(SubSeq(Raw, 9, 12)) ELSE 0]]

\* the cell pointer array taken to start 8 bytes into every page
arrayStartOfLeaf(pg) == pg.Offset + 8

\* ReadCellPtrs: where the cell pointer array starts
arrayStart(pg) ==
    IF Interior(pg.Header.Type) THEN pg.Offset + 12 ELSE pg.Offset + 8

\* ReadCellPtrs, the loop that reads CellCount pointers of 2 bytes; err
\* when the file ends first
ReadCellPtrArray(pg, f) ==
    LET count == pg.Header.CellCount
    IN  IF arrayStart(pg) + 2 * count > Len(f)
        THEN [err |-> TRUE, CellPtrs |-> <<>>]
        ELSE [err |-> FALSE,
              CellPtrs |-> [i \in 1..count |->
                              Int16(BigEndian(ReadAt(f, 2, arrayStart(pg) + 2 * (i - 1))))]]

NoCell ==
    [LeftChildPointer |-> 0, RowID |-> 0, PayloadSize |-> 0, Payload |-> <<>>,
     Keys |-> <<>>]

\* F of the value of v, for a v that is computed once and used often, as a
\* local variable of the code is
With(v, F(_)) == CHOOSE r \in {F(x) : x \in {v}} : TRUE

\* one round of the loop of ReadTableLeafCell: the file offset the cell is
\* read at, the cell, and how the round ends
TableLeafCellAt(pg, f, i) ==
    LET offset  == IF pg.PageNum = 1 THEN 0 ELSE pg.Offset
        cellPtr == pg.CellPtrs[i] + offset
    IN  With(ReadAt(f, pg.Size - (cellPtr % pg.Size), cellPtr), LAMBDA buf :
        With(Uvarint(buf), LAMBDA size :
        With(ReadVarInt(SubSeq(buf, size.n + 1, Len(buf))), LAMBDA rowID :
        With(ReadRecord(SubSeq(buf, size.n + rowID.n + 1, Len(buf))), LAMBDA record :
          [at   |-> cellPtr,
           cell |-> [NoCell EXCEPT !.PayloadSize = IntOf(size.value),
                                   !.RowID = IntOf(rowID.value),
                                   !.Keys = record.Keys],
           outcome |-> IF cellPtr < 0 \/ size.n < 0 THEN "panic"
                       ELSE IF record.outcome # "ok" THEN record.outcome
                       ELSE IF pg.PageNum = 1 /\ Len(record.Keys) < 5 THEN "panic"
                       ELSE "ok"]))))

\* one round of the loop of ReadIndexLeafCell
IndexLeafCellAt(pg, f, i) ==
    LET cellPtr == pg.CellPtrs[i]
    IN  With(Uvarint(ReadAt(f, pg.Size - cellPtr, cellPtr)), LAMBDA size :
        With(IntOf(size.value), LAMBDA payloadSize :
          [at   |-> cellPtr,
           cell |-> [NoCell EXCEPT !.PayloadSize = payloadSize,
                                   !.Payload = ReadAt(f, payloadSize, cellPtr + size.n)],
           outcome |-> IF pg.Size - cellPtr < 0 \/ payloadSize < 0
                       THEN "panic" ELSE "ok"]))

\* one round of the loop of ReadIndexInteriorCell
IndexInteriorCellAt(pg, f, i) ==
    LET cellPtr == pg.CellPtrs[i]
    IN  With(ReadAt(f, pg.Size - cellPtr, cellPtr), LAMBDA buf :
        With(Uvarint(SubSeq(buf, 5, Len(buf))), LAMBDA size :
        With(IntOf(size.value), LAMBDA payloadSize :
          [at   |-> cellPtr,
           cell |-> [NoCell EXCEPT !.LeftChildPointer = BigEndian(SubSeq(buf, 1, 4)),
                                   !.PayloadSize = payloadSize,
                                   !.Payload = ReadAt(f, payloadSize,
                                                      cellPtr + size.n + 4)],
           outcome |-> IF pg.Size - cellPtr < 0 \/ payloadSize < 0 THEN "panic"
                       ELSE IF pg.Size - cellPtr < 4 THEN "fatal"
                       ELSE "ok"])))

\* one round of the loop of ReadTableInteriorCell
TableInteriorCellAt(pg, f, i) ==
    LET cellPtr == pg.CellPtrs[i] + pg.Offset
    IN  With(ReadAt(f, pg.Size - pg.CellPtrs[i], cellPtr), LAMBDA buf :
          [at   |-> cellPtr,
           cell |-> [NoCell EXCEPT !.LeftChildPointer = BigEndian(SubSeq(buf, 1, 4)),
                                   !.RowID = IntOf(Uvarint(SubSeq(buf, 5, Len(buf))).value)],
           outcome |-> IF pg.Size - pg.CellPtrs[i] < 0 THEN "panic"
                       ELSE IF pg.Size - pg.CellPtrs[i] < 4 THEN "fatal"
                       ELSE "ok"])

\* the outcome of the first round that does not end well, "ok" if none
FirstBad(rounds) ==
    LET bad == {i \in 1..Len(rounds) : rounds[i].outcome # "ok"}
    IN  IF bad = {} THEN "ok" ELSE rounds[SetMin(bad)].outcome

\* ReadCellPtrs, the switch on the page type: the cells of the four page
\* types; no case for any other type byte
ReadCells(pg, f) ==
    LET count == pg.Header.CellCount
        type  == pg.Header.Type
    IN  CASE type = LeafTablePage     -> [i \in 1..count |-> TableLeafCellAt(pg, f, i)]
          [] type = LeafIndexPage     -> [i \in 1..count |-> IndexLeafCellAt(pg, f, i)]
          [] type = InteriorIndexPage -> [i \in 1..count |-> IndexInteriorCellAt(pg, f, i)]
          [] type = InteriorTablePage -> [i \in 1..count |-> TableInteriorCellAt(pg, f, i)]
          [] OTHER -> <<>>

NoPageRead ==
    [Header |-> NewHeader(0), Size |-> 0, Offset |-> 0, PageNum |-> 0,
     arrayStart |-> 0, CellPtrs |-> <<>>, at |-> <<>>, Cells |-> <<>>,
     Pages |-> <<>>, outcome |-> "fatal"]

\* TraverseBTree(databaseFile, pageSize, pageNumber) on the bytes f.  The
\* outcome is "ok" (the page is returned), "fatal" (log.Fatal on a read
\* error) or "panic"; there is no other result
\* A page number larger than the file has bytes is read past the end of
\* the file, whatever the product with the page size is
RECURSIVE TraverseBTreeOf(_, _, _)
TraverseBTreeOf(f, pageSize, pageNumber) ==
    LET offset == IF pageNumber = 1 THEN 100
                  ELSE IF pageNumber > Len(f) THEN Len(f)
                  ELSE (pageNumber - 1) * pageSize
    IN  With(ReadHeaderAt(offset, f), LAMBDA h :
        With([NoPageRead EXCEPT !.Header = h.header, !.Size = pageSize,
                                !.Offset = offset, !.PageNum = pageNumber],
             LAMBDA pg0 :
        IF h.err THEN pg0
        ELSE
        With(ReadCellPtrArray(pg0, f), LAMBDA ptrs :
        With([pg0 EXCEPT !.arrayStart = arrayStart(pg0), !.CellPtrs = ptrs.CellPtrs],
             LAMBDA pg1 :
        IF ptrs.err THEN pg1
        ELSE
        With(ReadCells(pg1, f), LAMBDA rounds :
        With([pg1 EXCEPT !.at = [i \in 1..Len(rounds) |-> rounds[i].at],
                         !.Cells = [i \in 1..Len(rounds) |-> rounds[i].cell],
                         !.outcome = FirstBad(rounds)],
             LAMBDA pg2 :
        IF pg2.outcome # "ok" THEN pg2
        ELSE IF pg2.Header.Type \in {LeafTablePage, LeafIndexPage} THEN pg2
        ELSE
        With([i \in 1..Len(pg2.Cells) |->
                TraverseBTreeOf(f, pageSize, pg2.Cells[i].LeftChildPointer)],
             LAMBDA Pages :
        [pg2 EXCEPT !.Pages = Pages, !.outcome = FirstBad(Pages)])))))))

\* the distances between the cells written on a page
Gaps == {16, 20}

\* the type bytes drawn: the four page types, 0 and 7
TypeBytes ==
    {InteriorIndexPage, InteriorTablePage, LeafIndexPage, LeafTablePage, 0, 7}

\* the pages read: page n of type byte type with k cells, gap bytes apart
PageSources ==
    [n : 1..(NumPages - 1), type : TypeBytes, k : 0..MaxCells, gap : Gaps]

\* the pointer of cell i, counted from the start of the page
PagePtr(s, i) == PageSize - s.gap * i

\* cell i as the file format lays it out for the page type; a leaf table
\* cell holds a row of five columns, as a row of the schema table does, and
\* a child pointer names the last page
CellBytes(type, i) ==
    CASE type = LeafTablePage ->
           <<13, i, 6, 1, 1, 1, 1, 19, 116, 110, 116, NumPages, 40, 97, 41>>
      [] type = InteriorTablePage -> <<0, 0, 0, NumPages, i>>
      [] type = LeafIndexPage -> <<3, 2, 1, 64 + i>>
      [] type = InteriorIndexPage -> <<0, 0, 0, NumPages, 3, 2, 1, 64 + i>>
      [] OTHER -> <<>>

\* the file: the page size in the file header, page s.n with its header,
\* its cell pointer array after the header and its cells at their pointers
\* counted from the start of the page, and an empty leaf as the last page
FileBytes(s) ==
    LET base == (s.n - 1) * PageSize
        H    == IF s.n = 1 THEN 100 ELSE base
        hdr  == <<s.type, 0, 0, 0, s.k, 0, 0, 0>>
                \o (IF Interior(s.type) THEN <<0, 0, 0, NumPages>> ELSE <<>>)
        arr  == Flatten([i \in 1..s.k |->
                           <<PagePtr(s, i) \div 256, PagePtr(s, i) % 256>>])
        Byte(x) ==
            CASE x \in 16..17 -> <<PageSize \div 256, PageSize % 256>>[x - 15]
              [] x >= H /\ x < H + Len(hdr) -> hdr[x - H + 1]
              [] x >= H + Len(hdr) /\ x < H + Len(hdr) + Len(arr) ->
                   arr[x - H - Len(hdr) + 1]
              [] \E i \in 1..s.k :
                   /\ x >= base + PagePtr(s, i)
                   /\ x < base + PagePtr(s, i) + Len(CellBytes(s.type, i)) ->
                   LET i == CHOOSE j \in 1..s.k :
                              /\ x >= base + PagePtr(s, j)
                              /\ x < base + PagePtr(s, j) + Len(CellBytes(s.type, j))
                   IN  CellBytes(s.type, i)[x - base - PagePtr(s, i) + 1]
              [] x = (NumPages - 1) * PageSize -> LeafTablePage
              [] OTHER -> 0
    IN  [x \in 1..(NumPages * PageSize) |-> Byte(x - 1)]

\* TraverseBTree on page s.n of the file, with the page size ReadDatabaseFile
\* reads from the file header
Page(s) ==
    /\ dec = NoDecode
    /\ \E f \in {FileBytes(s)} :
         dec' = [op |-> "TraverseBTree", src |-> s, buf |-> <<>>,
                 res |-> TraverseBTreeOf(f, BigEndian(SubSeq(f, 17, 18)), s.n)]
    /\ UNCHANGED <<file, db, running, cmd, out, page, iteration>>

---------------------------------------------------------------------------
(* Page.GetTableColumns on the declared columns of a table.                *)

\* the most rows on the leaf page read
MaxLeafRows == 2

\* "id integer primary key", "name text", "color text", "country", "name",
\* "seq"
colId      == <<105, 100, 32, 105, 110, 116, 101, 103, 101, 114, 32, 112, 114, 105, 109, 97, 114, 121, 32, 107, 101, 121>>
colName    == <<110, 97, 109, 101, 32, 116, 101, 120, 116>>
colColor   == <<99, 111, 108, 111, 114, 32, 116, 101, 120, 116>>
colCountry == <<99, 111, 117, 110, 116, 114, 121>>
colBareName == <<110, 97, 109, 101>>
colSeq     == <<115, 101, 113>>

\* "pk integer primary key", "width text"
colPk    == <<112, 107, 32, 105, 110, 116, 101, 103, 101, 114, 32, 112, 114, 105, 109, 97, 114, 121, 32, 107, 101, 121>>
colWidth == <<119, 105, 100, 116, 104, 32, 116, 101, 120, 116>>

\* column declarations as parseColNames returns them; alias says that the
\* column is the INTEGER PRIMARY KEY of its table, the alias of the row-id
ColumnDecls ==
    { [text |-> colId, alias |-> TRUE], [text |-> colPk, alias |-> TRUE],
      [text |-> colName, alias |-> FALSE], [text |-> colWidth, alias |-> FALSE] }

\* the declared columns of a table: 1..MaxCols declarations, at most one of
\* them the alias of the row-id
ColumnLists ==
    { cols \in UNION { [1..k -> ColumnDecls] : k \in 1..MaxCols } :
        Cardinality({i \in DOMAIN cols : cols[i].alias}) <= 1 }

TableSources == [cols : ColumnLists, rows : 1..MaxLeafRows]

\* the row-id of row r, and the value stored in its column i: NULL in the
\* column that is the alias of the row-id, a text elsewhere
RowIDOf(r) == 10 * r + 1
StoredValue(t, r, i) == IF t.cols[i].alias THEN NullKey ELSE <<96 + r, 96 + i>>

\* the leaf table page holding the rows of t
TableLeaf(t) ==
    [Header |-> [Type |-> LeafTablePage, CellCount |-> t.rows, RightMostPointer |-> 0],
     Cells  |-> [r \in 1..t.rows |->
                   LeafCell(RowIDOf(r), [i \in 1..Len(t.cols) |-> StoredValue(t, r, i)])],
     Pages  |-> <<>>]

\* table.GetTableColumns(cols) with the declared columns of the table
Columns(t) ==
    /\ dec = NoDecode
    /\ dec' = [op |-> "GetTableColumns", src |-> t, buf |-> <<>>,
               res |-> GetTableColumns(TableLeaf(t),
                                       [i \in 1..Len(t.cols) |-> t.cols[i].text])]
    /\ UNCHANGED <<file, db, running, cmd, out, page, iteration>>

\* the decoders of btree.go, called on bytes
DecodeInit ==
    /\ file = DatabaseFile(0)
    /\ db = NewSQLite(file)
    /\ running = TRUE
    /\ cmd = NoCommand
    /\ out = [result |-> <<>>, err |-> "", panic |-> FALSE,
              stmt |-> NoStmt, rootPage |-> NoPage]
    /\ page = [tree |-> NoPage, name |-> <<>>, err |-> ""]
    /\ iteration = "btree"
    /\ dec = NoDecode

DecodeNext ==
    \/ \E buf \in VarIntBufs : VarInt(buf)
    \/ \E buf \in VarIntBufs : PayloadSize(buf)
    \/ \E s \in RecordSources : Record(s)
    \/ \E s \in PageSources : Page(s)
    \/ \E t \in TableSources : Columns(t)

DecodeSpec == DecodeInit /\ [][DecodeNext]_vars

---------------------------------------------------------------------------
(* Properties of the decoders.                                             *)

\* ReadRecord has been called on a well-formed record
ReadWellFormed == dec.op = "ReadRecord" /\ dec.src.shape \in {"exact", "page"}

\* C12: the record decoder produces a values list with exactly one entry
\* per column-type code of the record header, in header order, for every
\* combination of serial-type codes (0, 8, 9, 10 and 11 included), so value
\* i belongs to column i
C12_OneValuePerColumnType ==
    ReadWellFormed
    => /\ dec.res.outcome = "ok"
       /\ dec.res.ColumnTypes = dec.src.codes
       /\ Len(dec.res.Keys) = Len(dec.src.codes)
       /\ \A i \in 1..Len(dec.src.codes) :
            SerialTypeWidth(dec.src.codes[i]) > 0
            => dec.res.Keys[i] = ColumnBytes(i, dec.src.codes[i])

RECURSIVE SumWidths(_, _)
SumWidths(codes, i) ==
    IF i > Len(codes) THEN 0 ELSE SerialTypeWidth(codes[i]) + SumWidths(codes, i + 1)

\* C13: for every serial-type code the record decoder consumes the width of
\* the serial-type table from the body (0 bytes for 0, 8, 9, 10, 11; 1, 2,
\* 3, 4, 6, 8, 8 for 1..7; (code-12)/2 and (code-13)/2 from 12 on), and it
\* materializes code 0 as one zero byte, 8 as {0} and 9 as {1}; so for a
\* well-formed record the widths consumed add up to the payload size less
\* the header size
C13_WidthsOfSerialTypes ==
    ReadWellFormed
    => LET codes == dec.src.codes
           Entry(i) == i - Cardinality({j \in 1..i : codes[j] \in {10, 11}})
       IN  /\ dec.res.outcome = "ok"
           /\ dec.res.n - dec.res.HeaderSize = SumWidths(codes, 1)
           /\ dec.res.n - dec.res.HeaderSize = Len(RecordBytes(codes)) - dec.res.HeaderSize
           /\ \A i \in 1..Len(codes) :
                codes[i] \notin {10, 11}
                => /\ Len(dec.res.Keys[Entry(i)]) =
                        IF codes[i] \in {0, 8, 9} THEN 1 ELSE SerialTypeWidth(codes[i])
                   /\ codes[i] \in {0, 8} => dec.res.Keys[Entry(i)] = <<0>>
                   /\ codes[i] = 9 => dec.res.Keys[Entry(i)] = <<1>>

\* a record of a 48-bit integer and a text of two bytes has been read
C13_Witness ==
    /\ ReadWellFormed
    /\ dec.src.codes = <<5, 17>>
    /\ dec.res.outcome = "ok"
    /\ dec.res.n = 3 + 6 + 2

\* C14: when the width of a column's serial type would read past the end of
\* the record payload, the record decoder returns a malformed-record error
\* instead of a record, for integer, float, BLOB and TEXT codes alike
C14_OverrunIsMalformedRecord ==
    (dec.op = "ReadRecord" /\ dec.src.shape = "short")
    => dec.res.outcome = "error"

\* C18: decoding never hangs: for every input, malformed ones included, the
\* header loop of the record decoder ends, with a result or a fatal error,
\* also when the declared header size exceeds the bytes available
C18_DecodingEnds ==
    dec.op = "ReadRecord" => dec.res.outcome # "hang"


\* TraverseBTree has been called on a page of one of the four page types
ReadPageOfType ==
    /\ dec.op = "TraverseBTree"
    /\ dec.src.type \in {InteriorIndexPage, InteriorTablePage, LeafIndexPage, LeafTablePage}

\* C15: a page whose type byte is not one of 0x02, 0x05, 0x0a, 0x0d is
\* rejected with a malformed-file error: it gets no header length, no
\* cell-pointer array and no cells, and it is never returned as a decoded
\* page
C15_OtherTypeByteIsRejected ==
    (dec.op = "TraverseBTree" /\ ~ReadPageOfType)
    => /\ dec.res.outcome = "fatal"
       /\ dec.res.CellPtrs = <<>>
       /\ dec.res.Cells = <<>>

\* len(cell_pointers) == header.cell_count on pg and on the pages below it
RECURSIVE PointersMatchCount(_)
PointersMatchCount(pg) ==
    /\ Len(pg.CellPtrs) = pg.Header.CellCount
    /\ \A i \in 1..Len(pg.Pages) : PointersMatchCount(pg.Pages[i])

\* C16: every decoded page has as many cell pointers as its header's cell
\* count, and the cell-pointer array is located 12 bytes after the start of
\* the header on interior pages (0x02, 0x05) and 8 bytes after it on leaf
\* pages (0x0a, 0x0d), so the pointers decoded are the pointers of the page
C16_CellPointersMatchCellCount ==
    (ReadPageOfType /\ dec.res.outcome = "ok")
    => /\ PointersMatchCount(dec.res)
       /\ dec.res.Header.CellCount = dec.src.k
       /\ dec.res.arrayStart - dec.res.Offset =
              IF dec.src.type \in {InteriorIndexPage, InteriorTablePage} THEN 12 ELSE 8
       /\ Len(dec.res.Header.Raw) = dec.res.arrayStart - dec.res.Offset
       /\ dec.res.CellPtrs = [i \in 1..dec.src.k |-> PagePtr(dec.src, i)]

\* an interior table page with the most cells, not the first page, has been
\* decoded
C16_Witness ==
    /\ ReadPageOfType
    /\ dec.src.type = InteriorTablePage
    /\ dec.src.n > 1
    /\ dec.src.k = MaxCells
    /\ dec.res.outcome = "ok"
    /\ Len(dec.res.CellPtrs) = MaxCells

\* C17: for every page number n >= 1 and each of the four cell types, the
\* header of page n is read at file offset (n-1)*page_size, plus 100 when
\* n = 1, and a cell pointer p of page n is resolved to file offset
\* (n-1)*page_size + p, on page 1 too
C17_CellPointersArePageAbsolute ==
    ReadPageOfType
    => /\ dec.res.Offset =
              (dec.src.n - 1) * PageSize + (IF dec.src.n = 1 THEN 100 ELSE 0)
       /\ Len(dec.res.at) = dec.src.k
       /\ \A i \in 1..dec.src.k :
            dec.res.at[i] = (dec.src.n - 1) * PageSize + PagePtr(dec.src, i)


---------------------------------------------------------------------------
(* Opening a file: the catalog of NewSQLite over schema pages.             *)

\* the most rows on the schema page of the files opened
MaxSchemaRows == 3

\* "CREATE ", " ON ", " (", "sqlite_sequence", "sqlite_autoindex_Pears_1", "v"
txtCreate == <<67, 82, 69, 65, 84, 69, 32>>
txtOn     == <<32, 79, 78, 32>>
txtOpen   == <<32, 40>>
nmSequence  == <<115, 113, 108, 105, 116, 101, 95, 115, 101, 113, 117, 101, 110, 99, 101>>
nmAutoIndex == <<115, 113, 108, 105, 116, 101, 95, 97, 117, 116, 111, 105, 110, 100, 101, 120, 95, 80, 101, 97, 114, 115, 95, 49>>
nmView      == <<118>>
\* "CREATE VIEW v AS SELECT name FROM apples"
sqlView == <<67, 82, 69, 65, 84, 69, 32, 86, 73, 69, 87, 32, 118, 32, 65, 83, 32, 83, 69, 76, 69, 67, 84, 32, 110, 97, 109, 101, 32, 70, 82, 79, 77, 32, 97, 112, 112, 108, 101, 115>>


\* the bytes of a rootpage column: the integer n, big-endian, in 1 or 2 bytes
RootPageBytes(n) == IF n < 256 THEN <<n>> ELSE <<n \div 256, n % 256>>

\* the text of a CREATE statement with the column list cols separated by sep
CreateText(type, name, tbl, cols, sep) ==
    txtCreate \o ToUpper(type) \o chSpace \o name
    \o (IF type = txtIndex THEN txtOn \o tbl ELSE <<>>)
    \o txtOpen \o Join(cols, sep) \o <<41>>

\* rows of sqlite_schema: tables, an index, the internal table
\* sqlite_sequence, the internal index of a UNIQUE column (whose sql is
\* NULL) and a view; root is the number stored in rootpage and cols the
\* columns the sql text declares
SchemaRow(type, name, tbl, root, cols, sql) ==
    [type |-> type, name |-> name, tbl |-> tbl, root |-> root, cols |-> cols,
     sql |-> sql]

SchemaRows ==
    { SchemaRow(txtTable, nmApples, nmApples, 2, <<colId, colName, colColor>>,
                CreateText(txtTable, nmApples, nmApples,
                           <<colId, colName, colColor>>, chCommaSpace)),
      SchemaRow(txtTable, nmPears, nmPears, 5, <<colId, colName>>,
                CreateText(txtTable, nmPears, nmPears, <<colId, colName>>, chCommaSpace)),
      SchemaRow(txtIndex, nmIdxCountry, nmCompanies, 4, <<colCountry>>,
                CreateText(txtIndex, nmIdxCountry, nmCompanies, <<colCountry>>,
                           chCommaSpace)),
      SchemaRow(txtTable, nmSequence, nmSequence, 258, <<colBareName, colSeq>>,
                CreateText(txtTable, nmSequence, nmSequence,
                           <<colBareName, colSeq>>, chComma)),
      SchemaRow(txtIndex, nmAutoIndex, nmPears, 6, <<>>, NullKey),
      SchemaRow(txtView, nmView, nmView, 0, <<>>, sqlView) }

\* the schema pages: up to MaxSchemaRows different rows, in any order
RECURSIVE SchemaRowSeqs(_)
SchemaRowSeqs(k) ==
    IF k = 0 THEN {<<>>}
    ELSE LET shorter == SchemaRowSeqs(k - 1)
         IN  shorter \cup
             { Append(rows, r) : rows \in {x \in shorter : Len(x) = k - 1},
                                 r \in SchemaRows }

DistinctRows(rows) ==
    \A i, j \in 1..Len(rows) : i # j => rows[i].name # rows[j].name

\* the file whose page 1 holds rows, one cell per row in cell-pointer order
SchemaFile(rows) ==
    [pageSize |-> 4096,
     pages |-> <<RawPage(LeafTablePage,
                         [i \in 1..Len(rows) |->
                            LeafCell(i, <<rows[i].type, rows[i].name, rows[i].tbl,
                                          RootPageBytes(rows[i].root), rows[i].sql>>)],
                         0)>>]

\* parseColNames: exprStr[Index("(")+1 : Index(")")] panics (slice bounds out
\* of range) when the end lies before the start
parseColNamesPanics(bytes) == Index(bytes, <<41>>) < Index(bytes, <<40>>) + 1

\* the database before NewSQLite
NoSQLite == [file |-> "closed", pageSize |-> 0, tables |-> <<>>]

\* NewSQLite(databaseFilePath): the catalog, or the panic of parseColNames
\* in ParseSQLiteSchema
Open ==
    /\ running
    /\ db = NoSQLite
    /\ running' = ~(\E i \in 1..Len(file.pages[1].Cells) :
                       parseColNamesPanics(file.pages[1].Cells[i].Keys[SchemaTextIdx + 1]))
    /\ db' = IF running' THEN NewSQLite(file) ELSE [db EXCEPT !.file = "panic"]
    /\ UNCHANGED <<file, cmd, out, page, iteration, dec>>

\* the rows the file in `file` was written from
RowsOf(f) ==
    CHOOSE rows \in {x \in SchemaRowSeqs(MaxSchemaRows) : DistinctRows(x)} :
        SchemaFile(rows) = f

OpenInit ==
    /\ file \in {SchemaFile(rows) :
                   rows \in {x \in SchemaRowSeqs(MaxSchemaRows) : DistinctRows(x)}}
    /\ db = NoSQLite
    /\ running = TRUE
    /\ cmd = NoCommand
    /\ out = [result |-> <<>>, err |-> "", panic |-> FALSE,
              stmt |-> NoStmt, rootPage |-> NoPage]
    /\ page = [tree |-> NoPage, name |-> <<>>, err |-> ""]
    /\ iteration = "sqlite"
    /\ dec = NoDecode

OpenNext == Open

OpenSpec == OpenInit /\ [][OpenNext]_vars

\* C19: the catalog built at open has exactly one entry per row of the
\* schema page, in cell-pointer order, with the row's name, its root page
\* (the big-endian unsigned value of the rootpage bytes) and the column
\* names of its sql text; table_count is the number of entries and the
\* length of table_names, the internal sqlite_ rows included
C19_CatalogHasOneEntryPerRow ==
    db # NoSQLite
    => LET rows == RowsOf(file)
       IN  /\ db.file = "open"
           /\ Len(db.tables) = Len(rows)
           /\ \A i \in 1..Len(rows) :
                /\ db.tables[i].Name = rows[i].name
                /\ db.tables[i].PageNum = rows[i].root
                /\ db.tables[i].ColNames = rows[i].cols
           /\ GetTableCount(db) = Len(rows)
           /\ Len(GetTableNames(db)) = GetTableCount(db)
           /\ GetTableNames(db) = [i \in 1..Len(rows) |-> rows[i].name]
---------------------------------------------------------------------------
(* Properties of the rows read.                                            *)

\* C20: a column declared as the row-id alias of its table (INTEGER PRIMARY
\* KEY) reports the row-id of the row in every row, whatever the column is
\* named, and a column that is not the alias reports the value stored in
\* the record
C20_AliasColumnReportsRowID ==
    dec.op = "GetTableColumns"
    => /\ Len(dec.res) = dec.src.rows
       /\ \A r \in 1..dec.src.rows : \A i \in 1..Len(dec.src.cols) :
            dec.res[r][i] = IF dec.src.cols[i].alias THEN Itoa(RowIDOf(r))
                            ELSE StoredValue(dec.src, r, i)

(***************************************************************************)
(* Row-id-filtered table walks: GetRootPageByName with a []uint64 filter,  *)
(* applied to lists of row-ids in any order.                               *)
(***************************************************************************)

MaxIds == 3

\* the sequences of at most n distinct row-ids between 1 and MaxRows + 1
RECURSIVE RowIdLists(_)
RowIdLists(n) ==
    IF n = 0 THEN {<<>>}
    ELSE LET shorter == RowIdLists(n - 1)
         IN  shorter \cup
             {Append(l, id) : l \in {x \in shorter : Len(x) = n - 1},
                              id \in 1..(MaxRows + 1)}

DistinctIds(l) == \A i, j \in 1..Len(l) : i # j => l[i] # l[j]

\* db.GetRootPageByName("companies", rowIds)
Walk(rowIds) ==
    /\ iteration = "sqlite"
    /\ dec = NoDecode
    /\ dec' = [op |-> "GetRootPageByName", src |-> rowIds, buf |-> <<>>,
               res |-> GetRootPageByName(db, file, nmCompanies, TableFilter(rowIds))]
    /\ UNCHANGED <<file, db, running, cmd, out, page, iteration>>

WalkInit ==
    /\ \E n \in 0..MaxRows : file = DatabaseFile(n)
    /\ db = NewSQLite(file)
    /\ running = TRUE
    /\ cmd = NoCommand
    /\ out = [result |-> <<>>, err |-> "", panic |-> FALSE,
              stmt |-> NoStmt, rootPage |-> NoPage]
    /\ page = [tree |-> NoPage, name |-> <<>>, err |-> ""]
    /\ iteration = "sqlite"
    /\ dec = NoDecode

WalkNext == \E rowIds \in {l \in RowIdLists(MaxIds) : DistinctIds(l)} : Walk(rowIds)

WalkSpec == WalkInit /\ [][WalkNext]_vars

Walked == dec.op = "GetRootPageByName"

\* the leaf-table cells of a page tree, children in the order of page.Pages
RECURSIVE EmittedCells(_)
EmittedCells(pg) ==
    IF pg.Header.Type = LeafTablePage THEN pg.Cells
    ELSE Flatten([i \in 1..Len(pg.Pages) |-> EmittedCells(pg.Pages[i])])

IdSet(l) == {l[i] : i \in 1..Len(l)}

\* C21: a table walk with a row-id filter carrying the list L emits exactly
\* the leaf-table cells of the table whose row-id is in L, none with a
\* row-id outside L and none of L missing; an interior cell with key k is
\* kept among the cells to descend whenever some id of L is <= k
C21_FilteredWalkEmitsExactlyL ==
    Walked =>
      /\ EmittedCells(dec.res.page)
           = SelectSeq(LeafTableCells(file, SchemaRootPage(file, nmCompanies)),
                       LAMBDA c : c.RowID \in IdSet(dec.src))
      /\ dec.res.page.Header.Type = InteriorTablePage
         => \A c \in IdSet(file.pages[SchemaRootPage(file, nmCompanies)].Cells) :
               (\E id \in IdSet(dec.src) : id <= c.RowID)
                 => \E i \in 1..Len(dec.res.page.Cells) :
                      dec.res.page.Cells[i].LeftChildPointer = c.LeftChildPointer

\* a filtered walk over an interior root has emitted a cell of its first
\* leaf and a cell of its right-most leaf and has left out another row
C21_Witness ==
    /\ Walked
    /\ dec.res.page.Header.Type = InteriorTablePage
    /\ Len(dec.res.page.Pages) >= 2
    /\ Len(dec.res.page.Pages[1].Cells) >= 1
    /\ Len(dec.res.page.Pages[Len(dec.res.page.Pages)].Cells) >= 1
    /\ Len(EmittedCells(dec.res.page)) = Len(dec.src)
    /\ Len(dec.src) >= 2
    /\ Len(dec.src) < Len(LeafTableCells(file, SchemaRootPage(file, nmCompanies)))

\* the pages the walk descended into were all entered with a target left:
\* before each child of page.Pages, the ids not yet found are not empty
RECURSIVE WalkedWithTargets(_, _)
WalkedWithTargets(pg, remaining) ==
    \A i \in 1..Len(pg.Pages) :
        LET found == UNION {{c.RowID : c \in IdSet(EmittedCells(pg.Pages[j]))} :
                               j \in 1..(i - 1)}
        IN  /\ remaining \ found # {}
            /\ WalkedWithTargets(pg.Pages[i], remaining \ found)

\* C22: during a row-id-filtered table walk the walker descends into no
\* child page while the filter's remaining target set is empty, at every
\* interior page and also when the walk starts with an empty list
C22_NoDescentWithoutTargets ==
    Walked => WalkedWithTargets(dec.res.page, IdSet(dec.src))

\* the name a column declaration starts with
DeclaredName(decl) == Split(TrimSpace(decl), chSpace)[1]

\* the position among the declared columns of the column named name, 0 when
\* the table declares no such column
DeclaredIndex(colNames, name) ==
    LET hits == {j \in 1..Len(colNames) : DeclaredName(colNames[j]) = name}
    IN  IF hits = {} THEN 0 ELSE SetMin(hits)

\* the rows of the page tree of the query that pass its WHERE, as the
\* evaluator reads and filters them
SurvivingRows ==
    LET colNames == GetTableColNames(db, out.stmt.from)
        w        == EvaluateWhere(out.stmt,
                        Append(GetAllRows(out.rootPage, colNames), colNames))
    IN  SubSeq(w.result, 1, Len(w.result) - 1)

\* a query with a column list has returned lines
ColumnListReturned ==
    /\ Returned /\ out.err = "" /\ out.stmt # NoStmt
    /\ out.stmt.function = ""
    /\ out.stmt.cols # <<chStar>>

\* C23: for SELECT c1, ..., ck FROM T every output line is the pipe-joined
\* list of k fields, field i being the row's value of the declared column
\* named ci, in the order of the projection list and not of the table
C23_FieldsInProjectionOrder ==
    LET colNames == GetTableColNames(db, out.stmt.from)
        cols     == out.stmt.cols
    IN  (/\ ColumnListReturned
         /\ \A i \in 1..Len(cols) : DeclaredIndex(colNames, cols[i]) # 0)
        => out.result =
             [r \in 1..Len(SurvivingRows) |->
                Join([i \in 1..Len(cols) |->
                         SurvivingRows[r][DeclaredIndex(colNames, cols[i])]], chPipe)]

\* a query has returned several lines of three fields whose columns were
\* asked for in another order than the table declares them
C23_Witness ==
    /\ ColumnListReturned
    /\ Len(out.stmt.cols) = 3
    /\ LET colNames == GetTableColNames(db, out.stmt.from)
       IN  /\ DeclaredIndex(colNames, out.stmt.cols[1]) = 3
           /\ DeclaredIndex(colNames, out.stmt.cols[2]) = 1
           /\ DeclaredIndex(colNames, out.stmt.cols[3]) = 2
    /\ Len(out.result) >= 2
    /\ out.result[1] # out.result[2]

\* a projection text split on commas, each item trimmed
CommaItems(text) ==
    LET items == Split(text, chComma)
    IN  [i \in 1..Len(items) |-> TrimSpace(items[i])]

\* s without one pair of surrounding single quotes
Unquoted(s) ==
    IF Len(s) >= 2 /\ s[1] = 39 /\ s[Len(s)] = 39 THEN SubSeq(s, 2, Len(s) - 1) ELSE s

\* the third word group of a condition text: what follows the operator
LiteralOf(cond) == TrimSpace(SplitAfterN(Trim(cond, {32}), chSpace, 3)[3])

\* C24: the projection is split on commas and each item is trimmed, so the
\* texts "a,b", "a, b" and "a ,  b" parse to the same column list [a, b];
\* and the WHERE literal has one pair of surrounding single quotes removed
C24_ProjectionSplitAndLiteralUnquoted ==
    /\ (Parsed /\ ~cmd.parts.proj.fn)
       => out.stmt.cols = CommaItems(ToLower(cmd.parts.proj.args))
    /\ (/\ Parsed /\ out.stmt.where.present
        /\ Len(SplitAfterN(Trim(cmd.parts.cond, {32}), chSpace, 3)) = 3)
       => out.stmt.where.right = Unquoted(ToLower(LiteralOf(cmd.parts.cond)))

\* the tbl_name the schema page of the file gives for the index of this name
IndexedTable(f, indexName) ==
    LET cells == f.pages[1].Cells
    IN  cells[CHOOSE i \in 1..Len(cells) : cells[i].Keys[SchemaNameIdx + 1] = indexName]
           .Keys[SchemaNameIdx + 2]

\* the query took its root page from CheckForIndexPage
ThroughIndex ==
    /\ Parsed
    /\ out.stmt.where.present
    /\ CheckForIndexPage(out.stmt, db, file).err = ""

\* C25: when a WHERE lookup is accelerated through an index, the index whose
\* B-tree is walked is an index defined on the table named in FROM; an index
\* on another table that has a column of the same name is never used
C25_IndexBelongsToFromTable ==
    ThroughIndex
      => IndexedTable(file, GetIndexPageName(db, out.stmt.where.left)) = out.stmt.from

\* how many of the projected names some declared column matches
MatchedNames(colNames, cols) ==
    Cardinality({k \in 1..Len(cols) : ColIndex(colNames, cols[k]) # -1})

\* C26: for every query without an aggregate the number of result lines is
\* the number of rows that survive the WHERE filter, whatever the projection
\* list is; a projected name that matches no declared column adds no field
\* to any line and raises no error, and a projection that matches no column
\* at all yields one empty line per surviving row
C26_OneLinePerSurvivingRow ==
    /\ (Parsed /\ out.err = "" /\ out.stmt.function = "")
       => Len(out.result) = Len(SurvivingRows)
    /\ ColumnListReturned
       => LET n == MatchedNames(GetTableColNames(db, out.stmt.from), out.stmt.cols)
          IN  \A r \in 1..Len(out.result) :
                 IF n = 0 THEN out.result[r] = <<>>
                 ELSE Len(Split(out.result[r], chPipe)) = n

\* the query has an equality predicate and a projection for which
\* EvaluateStmt calls the filter
EqualityFiltered ==
    /\ Parsed
    /\ out.stmt.where.present
    /\ out.stmt.where.op = chEq
    /\ out.stmt.cols # <<chStar>>

\* C27: the equality filter compares the value of the column the WHERE
\* predicate names: the rows it keeps are the rows whose declared column of
\* that name equals the literal, and when the left identifier names no
\* declared column of the table the query fails instead of filtering on some
\* other column
C27_FilterUsesNamedColumn ==
    LET colNames == GetTableColNames(db, out.stmt.from)
        colIdx   == DeclaredIndex(colNames, out.stmt.where.left)
    IN  EqualityFiltered =>
          IF colIdx = 0 THEN out.err # ""
          ELSE out.err = ""
               => SurvivingRows
                    = SelectSeq(GetAllRows(out.rootPage, colNames),
                                LAMBDA row : ToLower(row[colIdx]) = out.stmt.where.right)
=============================================================================
